---- MODULE Spec2Model ----
(***************************************************************************)
(* Instance lifecycle and supervision core of claude-squad.                *)
(*                                                                         *)
(* An Instance (session/instance.go) pairs a detached tmux pane with a git *)
(* worktree.  The tmux and git packages are collaborators of the Instance; *)
(* they are modelled here as a small world: the set of live panes, the     *)
(* on-disk working trees and the branches, all keyed by the name the       *)
(* Instance hands them (its title).  Outcomes of external commands         *)
(* (git/tmux failures, what a pane capture shows, whether session history  *)
(* exists) are inputs of the actions.                                      *)
(***************************************************************************)
EXTENDS Integers, Sequences, FiniteSets, TLC

VARIABLES
    inst,     \* Inst -> Instance struct (fields of session.Instance)
    life,     \* Inst -> "none" | "fleet" | "killed"
    pane,     \* Titles -> BOOLEAN : a tmux pane of that name exists
    wt,       \* Titles -> BOOLEAN : the working tree of that name is on disk
    branch,   \* Titles -> BOOLEAN : the branch of that name exists
    checkout, \* Titles -> BOOLEAN : that branch is checked out in the repository
    now,      \* wall clock, in seconds since the supervisor started
    run,      \* Runners -> the position of that goroutine in the restart path
    screen,   \* Titles -> what a capture of that pane shows
    ret       \* what the last operation was and what it returned

vars == <<inst, life, pane, wt, branch, checkout, now, run, screen, ret>>

---------------------------------------------------------------------------
(* Bounds                                                                  *)

\* the clock of the lifecycle specification stops at MaxTime
MaxTime == 2
\* the clock of the restart specification stops at RestartHorizon
RestartHorizon == 17

\* the clock of the concurrent-restart specification stops at ConcHorizon
ConcHorizon == 16

Inst == {"i1", "i2"}
Titles == {"feat", "fix"}
Programs == {"claude code", "aider"}
\* the retries at which a restarted pane is first seen ready: at once, or
\* at the fourth capture
ProbeCases == {0, 3}

\* the goroutines that can be in the restart path of one instance: two
\* restarts dispatched from the UI, and the tick
Callers == {"ui1", "ui2"}
Runners == Callers \cup {"watchdog"}

---------------------------------------------------------------------------
(* Program constants                                                       *)

\* Status
Running == "Running"
Ready == "Ready"
Loading == "Loading"
Paused == "Paused"

\* ManualRestart: const restartCooldown = 10 * time.Second
RestartCooldown == 10
\* DetectCrashAndRestart: const maxRestartAttempts = 3
MaxRestartAttempts == 3
\* DetectCrashAndRestart: const restartCooldown = 5 * time.Minute
AutoRestartCooldown == 300
\* restartClaudeWithResume: maxRetries := 5
MaxRetries == 5

\* the zero time.Time{}: far in the past of every clock value
ZeroTime == 0 - 2^20

\* strings.Contains(strings.ToLower(i.Program), "claude")
IsClaude(program) == program = "claude code"

\* a nil *tmux.TmuxSession / *git.GitWorktree
NoSession == [name |-> "", program |-> ""]
NoWorktree == ""

\* tmux.NewTmuxSession(name, program)
NewTmuxSession(name, program) == [name |-> name, program |-> program]

\* strings.Split(i.Program, " ")[0] + " -r " + sessionNumber
ResumeProgram(program) == IF IsClaude(program) THEN "claude -r session" ELSE program

---------------------------------------------------------------------------
(* The world the tmux and git collaborators act on                         *)

World == [pane |-> pane, wt |-> wt, branch |-> branch, checkout |-> checkout]

\* TmuxSession.Start(workDir): fails if a pane of that name exists
TmuxStart(w, name, ok) ==
    IF ok /\ ~w.pane[name]
    THEN [w |-> [w EXCEPT !.pane[name] = TRUE], ok |-> TRUE]
    ELSE [w |-> w, ok |-> FALSE]

\* TmuxSession.Close(): kill-session fails when there is no such pane
TmuxClose(w, name, ok) ==
    IF ok /\ w.pane[name]
    THEN [w |-> [w EXCEPT !.pane[name] = FALSE], ok |-> TRUE]
    ELSE [w |-> w, ok |-> FALSE]

\* TmuxSession.Restore(): succeeds only if a pane of that name exists
TmuxRestore(w, name) == w.pane[name]

\* TmuxSession.CapturePaneContent(): fails when the pane is gone
TmuxCaptureOk(w, name) == w.pane[name]

\* GitWorktree.Setup(): creates the branch (if needed) and the working tree;
\* refuses when the branch is already checked out in a working tree
GitSetup(w, name, ok) ==
    IF ok /\ ~w.wt[name] /\ ~w.checkout[name]
    THEN [w |-> [w EXCEPT !.wt[name] = TRUE, !.branch[name] = TRUE], ok |-> TRUE]
    ELSE [w |-> w, ok |-> FALSE]

\* GitWorktree.Remove(): removes the working tree, keeps the branch
GitRemove(w, name, ok) ==
    IF ok
    THEN [w |-> [w EXCEPT !.wt[name] = FALSE], ok |-> TRUE]
    ELSE [w |-> w, ok |-> FALSE]

\* GitWorktree.IsBranchCheckedOut(): "yes", "no", or "error" when the
\* underlying command fails
GitIsBranchCheckedOut(w, name, ok) ==
    IF ~ok THEN "error" ELSE IF w.checkout[name] THEN "yes" ELSE "no"

\* GitWorktree.Cleanup(): removes the working tree and the branch; a branch
\* that is checked out in the repository cannot be deleted
GitCleanup(w, name, ok) ==
    IF ok /\ ~w.checkout[name]
    THEN [w |-> [w EXCEPT !.wt[name] = FALSE, !.branch[name] = FALSE], ok |-> TRUE]
    ELSE [w |-> w, ok |-> FALSE]

---------------------------------------------------------------------------
(* Instance                                                                *)

\* NewInstance(opts): controller.handleNewInstance passes Title: ""
NewInstance(program) ==
    [ Title |-> "", Status |-> Ready, Program |-> program, AutoYes |-> FALSE,
      Branch |-> "", diffStats |-> "nil",
      LastActivityTime |-> ZeroTime, StallCount |-> 0, WatchdogEnabled |-> FALSE,
      ContinuousMode |-> FALSE, ContinuousModeStartTime |-> ZeroTime,
      ContinuousModeDuration |-> 0, lastContentHash |-> "",
      RestartAttempts |-> 0, LastRestartTime |-> ZeroTime,
      started |-> FALSE, tmuxSession |-> NoSession, gitWorktree |-> NoWorktree ]

\* Instance.InitializeWatchdog(enabled), at time t
InitializeWatchdog(r, enabled, t) ==
    [r EXCEPT !.WatchdogEnabled = enabled, !.LastActivityTime = t,
              !.StallCount = 0, !.lastContentHash = ""]

\* an operation's outcome: the instance, the world, the errors it collected
\* (<<>> is a nil error) and the collaborator calls it made, in order
Outcome(r, w, errs, steps) == [r |-> r, w |-> w, errs |-> errs, steps |-> steps]

\* val: the value of an operation that returns a bool ("" otherwise)
Return(op, i, o, val) ==
    [op |-> op, inst |-> i, errs |-> o.errs, steps |-> o.steps, val |-> val]

\* commit an outcome of an operation on instance i
Apply(op, i, o) ==
    /\ inst' = [inst EXCEPT ![i] = o.r]
    /\ pane' = o.w.pane
    /\ wt' = o.w.wt
    /\ branch' = o.w.branch
    /\ checkout' = o.w.checkout
    /\ ret' = Return(op, i, o, "")

\* Instance.Kill()
KillOutcome(r, w, closeOk, cleanupOk) ==
    IF ~r.started
    THEN Outcome(r, w, <<>>, <<>>)
    ELSE
      LET hasT == r.tmuxSession # NoSession
          c    == IF hasT THEN TmuxClose(w, r.tmuxSession.name, closeOk)
                          ELSE [w |-> w, ok |-> TRUE]
          hasG == r.gitWorktree # NoWorktree
          g    == IF hasG THEN GitCleanup(c.w, r.gitWorktree, cleanupOk)
                          ELSE [w |-> c.w, ok |-> TRUE]
          errs == (IF c.ok THEN <<>> ELSE <<"close">>)
                  \o (IF g.ok THEN <<>> ELSE <<"cleanup">>)
          steps == (IF hasT THEN <<"Close">> ELSE <<>>)
                   \o (IF hasG THEN <<"Cleanup">> ELSE <<>>)
      IN Outcome(r, g.w, errs, steps)

\* Instance.Start: the deferred handler when setupErr != nil.  Kill's error,
\* if any, is wrapped into the returned error.
StartFailed(r, w, errs, steps, closeOk, cleanupOk) ==
    LET k == KillOutcome(r, w, closeOk, cleanupOk)
    IN Outcome(k.r, k.w,
               errs \o (IF k.errs = <<>> THEN <<>> ELSE <<"kill_cleanup">>),
               steps \o k.steps)

\* Instance.Start: the deferred handler when setupErr == nil
StartSucceeded(r, w, steps, t) ==
    LET r1 == [r EXCEPT !.Status = Running, !.started = TRUE]
        r2 == IF r1.WatchdogEnabled THEN InitializeWatchdog(r1, TRUE, t) ELSE r1
    IN Outcome(r2, w, <<>>, steps)

\* StartPaneFailed without the cleanup of the working tree
StartPaneFailed_NoCleanup(r, w, steps, cleanupOk, closeOk, killCleanupOk) ==
    StartFailed(r, w, <<"start_pane">>, steps, closeOk, killCleanupOk)

\* Instance.Start: the pane-start failure branch of a first-time start,
\* which cleans the working tree up itself
StartPaneFailed(r, w, steps, cleanupOk, closeOk, killCleanupOk) ==
    LET cl == GitCleanup(w, r.gitWorktree, cleanupOk)
        errs == <<"start_pane">> \o (IF cl.ok THEN <<>> ELSE <<"cleanup">>)
    IN StartFailed(r, cl.w, errs, steps \o <<"Cleanup">>, closeOk, killCleanupOk)

\* Instance.Start(firstTimeSetup) at time t.  in: the outcomes of the
\* collaborator calls.
StartOutcome(r, w, firstTimeSetup, in, t) ==
    IF r.Title = ""
    THEN Outcome(r, w, <<"title_empty">>, <<>>)
    ELSE
      LET r1 == [r EXCEPT !.tmuxSession = NewTmuxSession(r.Title, r.Program)]
      IN
      IF firstTimeSetup /\ ~in.newOk
      THEN Outcome(r1, w, <<"new_worktree">>, <<"NewGitWorktree">>)
      ELSE
        LET r2 == IF firstTimeSetup
                  THEN [r1 EXCEPT !.gitWorktree = r.Title, !.Branch = r.Title]
                  ELSE r1
        IN
        IF ~firstTimeSetup
        THEN IF TmuxRestore(w, r2.tmuxSession.name)
             THEN StartSucceeded(r2, w, <<"Restore">>, t)
             ELSE StartFailed(r2, w, <<"restore">>, <<"Restore">>,
                              in.closeOk, in.killCleanupOk)
        ELSE
          LET su == GitSetup(w, r2.gitWorktree, in.setupOk)
          IN
          IF ~su.ok
          THEN StartFailed(r2, su.w, <<"setup">>, <<"NewGitWorktree", "Setup">>,
                           in.closeOk, in.killCleanupOk)
          ELSE
            LET st == TmuxStart(su.w, r2.tmuxSession.name, in.startOk)
            IN
            IF ~st.ok
            THEN StartPaneFailed(r2, st.w, <<"NewGitWorktree", "Setup", "Start">>,
                                 in.cleanupOk, in.closeOk, in.killCleanupOk)
            ELSE StartSucceeded(r2, st.w, <<"NewGitWorktree", "Setup", "Start">>, t)

\* closeOk and killCleanupOk are the outcomes of the calls the deferred Kill
\* makes; it makes none on an instance that has not been started
\* (an outcome is enumerated only where the call it belongs to can be made)
StartInputs ==
    { in \in [newOk : BOOLEAN, setupOk : BOOLEAN, startOk : BOOLEAN,
              cleanupOk : BOOLEAN, closeOk : {TRUE}, killCleanupOk : {TRUE}] :
        /\ ~in.newOk => in.setupOk
        /\ ~in.setupOk => in.startOk
        /\ in.startOk => in.cleanupOk }

---------------------------------------------------------------------------
(* Pause and Resume                                                        *)

\* the state Pause threads through its steps; stop = it has returned
PauseState(w) == [w |-> w, errs |-> <<>>, steps |-> <<>>, stop |-> FALSE]

\* PauseCommitStep that goes on after a failed commit
PauseCommitStep_GoesOn(s, dirty, pushOk) ==
    IF dirty = "error"
    THEN [s EXCEPT !.errs = Append(@, "dirty_check"), !.steps = Append(@, "IsDirty")]
    ELSE IF dirty = "dirty"
    THEN IF pushOk
         THEN [s EXCEPT !.steps = @ \o <<"IsDirty", "PushChanges">>]
         ELSE [s EXCEPT !.errs = Append(@, "commit"),
                        !.steps = @ \o <<"IsDirty", "PushChanges">>]
    ELSE [s EXCEPT !.steps = Append(@, "IsDirty")]

\* Pause: the dirty check and the commit
PauseCommitStep(s, dirty, pushOk) ==
    IF dirty = "error"
    THEN [s EXCEPT !.errs = Append(@, "dirty_check"), !.steps = Append(@, "IsDirty")]
    ELSE IF dirty = "dirty"
    THEN IF pushOk
         THEN [s EXCEPT !.steps = @ \o <<"IsDirty", "PushChanges">>]
         ELSE [s EXCEPT !.errs = Append(@, "commit"),
                        !.steps = @ \o <<"IsDirty", "PushChanges">>,
                        !.stop = TRUE]
    ELSE [s EXCEPT !.steps = Append(@, "IsDirty")]

\* PauseCloseStep that goes on after a failed close
PauseCloseStep_GoesOn(s, name, closeOk) ==
    IF s.stop THEN s
    ELSE LET c == TmuxClose(s.w, name, closeOk)
         IN IF c.ok
            THEN [s EXCEPT !.w = c.w, !.steps = Append(@, "Close")]
            ELSE [s EXCEPT !.errs = Append(@, "close"),
                           !.steps = Append(@, "Close")]

\* Pause: closing the pane
PauseCloseStep(s, name, closeOk) ==
    IF s.stop THEN s
    ELSE LET c == TmuxClose(s.w, name, closeOk)
         IN IF c.ok
            THEN [s EXCEPT !.w = c.w, !.steps = Append(@, "Close")]
            ELSE [s EXCEPT !.errs = Append(@, "close"),
                           !.steps = Append(@, "Close"), !.stop = TRUE]

\* Pause: removing the working tree, if it is on disk, and pruning
PauseRemoveStep(s, name, removeOk, pruneOk) ==
    IF s.stop \/ ~s.w.wt[name] THEN s
    ELSE LET g == GitRemove(s.w, name, removeOk)
         IN IF ~g.ok
            THEN [s EXCEPT !.errs = Append(@, "remove"),
                           !.steps = Append(@, "Remove"), !.stop = TRUE]
            ELSE IF ~pruneOk
            THEN [s EXCEPT !.w = g.w, !.errs = Append(@, "prune"),
                           !.steps = @ \o <<"Remove", "Prune">>, !.stop = TRUE]
            ELSE [s EXCEPT !.w = g.w, !.steps = @ \o <<"Remove", "Prune">>]

\* Pause: the precondition checks
PausePrecondition(r) ==
    IF ~r.started THEN <<"not_started">>
    ELSE IF r.Status = Paused THEN <<"already_paused">>
    ELSE <<>>

\* Pause that returns as soon as the dirty check has failed
PauseOutcome_StopsAtDirtyError(r, w, in) ==
    IF PausePrecondition(r) # <<>>
    THEN Outcome(r, w, PausePrecondition(r), <<>>)
    ELSE
      LET s0 == PauseCommitStep(PauseState(w), in.dirty, in.pushOk)
          s1 == [s0 EXCEPT !.stop = @ \/ in.dirty = "error"]
          s2 == PauseCloseStep(s1, r.tmuxSession.name, in.closeOk)
          s3 == PauseRemoveStep(s2, r.gitWorktree, in.removeOk, in.pruneOk)
      IN IF s3.errs # <<>>
         THEN Outcome(r, s3.w, s3.errs, s3.steps)
         ELSE Outcome([r EXCEPT !.Status = Paused], s3.w, <<>>, s3.steps)

\* Instance.Pause()
PauseOutcome(r, w, in) ==
    IF PausePrecondition(r) # <<>>
    THEN Outcome(r, w, PausePrecondition(r), <<>>)
    ELSE
      LET s1 == PauseCommitStep(PauseState(w), in.dirty, in.pushOk)
          s2 == PauseCloseStep(s1, r.tmuxSession.name, in.closeOk)
          s3 == PauseRemoveStep(s2, r.gitWorktree, in.removeOk, in.pruneOk)
      IN IF s3.errs # <<>>
         THEN Outcome(r, s3.w, s3.errs, s3.steps)
         ELSE Outcome([r EXCEPT !.Status = Paused], s3.w, <<>>, s3.steps)

\* (an outcome is enumerated only where the call it belongs to can be made)
PauseInputs ==
    { in \in [dirty : {"clean", "dirty", "error"}, pushOk : BOOLEAN,
              closeOk : BOOLEAN, removeOk : BOOLEAN, pruneOk : BOOLEAN] :
        /\ in.dirty # "dirty" => in.pushOk
        /\ ~in.pushOk => in.closeOk
        /\ ~in.closeOk => in.removeOk
        /\ ~in.removeOk => in.pruneOk }

\* Resume: the precondition checks
ResumePrecondition(r) ==
    IF ~r.started THEN <<"not_started">>
    ELSE IF r.Status # Paused THEN <<"not_paused">>
    ELSE <<>>

\* ResumeBranchCheck that lets a checked-out branch through
ResumeBranchCheck_Lenient(checked) ==
    IF checked = "error" THEN <<"branch_check">> ELSE <<>>

\* Resume: the branch check; checked = what IsBranchCheckedOut reports
ResumeBranchCheck(checked) ==
    IF checked = "error" THEN <<"branch_check">>
    ELSE IF checked = "yes" THEN <<"branch_checked_out">>
    ELSE <<>>

\* Instance.Resume()
ResumeOutcome(r, w, in) ==
    IF ResumePrecondition(r) # <<>>
    THEN Outcome(r, w, ResumePrecondition(r), <<>>)
    ELSE IF ResumeBranchCheck(GitIsBranchCheckedOut(w, r.gitWorktree, in.checkOk)) # <<>>
    THEN Outcome(r, w,
                 ResumeBranchCheck(GitIsBranchCheckedOut(w, r.gitWorktree, in.checkOk)),
                 <<"IsBranchCheckedOut">>)
    ELSE
      LET su == GitSetup(w, r.gitWorktree, in.setupOk)
      IN
      IF ~su.ok
      THEN Outcome(r, su.w, <<"setup">>, <<"IsBranchCheckedOut", "Setup">>)
      ELSE
        LET st == TmuxStart(su.w, r.tmuxSession.name, in.startOk)
        IN
        IF ~st.ok
        THEN LET cl == GitCleanup(st.w, r.gitWorktree, in.cleanupOk)
             IN Outcome(r, cl.w,
                        <<"start_pane">> \o (IF cl.ok THEN <<>> ELSE <<"cleanup">>),
                        <<"IsBranchCheckedOut", "Setup", "Start", "Cleanup">>)
        ELSE Outcome([r EXCEPT !.Status = Running], st.w, <<>>,
                     <<"IsBranchCheckedOut", "Setup", "Start">>)

\* (an outcome is enumerated only where the call it belongs to can be made)
ResumeInputs ==
    { in \in [checkOk : BOOLEAN, setupOk : BOOLEAN, startOk : BOOLEAN,
              cleanupOk : BOOLEAN] :
        /\ ~in.checkOk => in.setupOk
        /\ ~in.setupOk => in.startOk
        /\ in.startOk => in.cleanupOk }

---------------------------------------------------------------------------
(* Restart                                                                 *)

\* restartClaudeWithResume: the readiness probe.  readyAt is the first retry
\* whose capture shows a ready pane (MaxRetries: none does).  The loop
\* sleeps 1<<retry seconds before each capture and sends "continue" once.
RECURSIVE Probe(_, _, _)
Probe(retry, readyAt, p) ==
    IF retry >= MaxRetries THEN p
    ELSE LET q == [p EXCEPT !.elapsed = @ + 2^retry,
                            !.steps = Append(@, "Capture")]
         IN IF retry = readyAt
            THEN [q EXCEPT !.steps = Append(@, "SendPrompt")]
            ELSE Probe(retry + 1, readyAt, q)

\* the readiness probe that sends "continue" also when no capture has shown a
\* ready pane
ReadinessProbe_SendsAnyway(readyAt) ==
    LET p == Probe(0, readyAt, [elapsed |-> 0, steps |-> <<>>])
    IN [p EXCEPT !.steps = @ \o <<"SendPrompt">>]

ReadinessProbe(readyAt) == Probe(0, readyAt, [elapsed |-> 0, steps |-> <<>>])

\* RestoreContinuousMode that switches continuous mode off
RestoreContinuousMode_Off(r, wasInContinuousMode, startTime, duration) ==
    [r EXCEPT !.ContinuousMode = FALSE, !.ContinuousModeStartTime = ZeroTime]

\* restartClaudeWithResume: restore continuous mode state if it was enabled
RestoreContinuousMode(r, wasInContinuousMode, startTime, duration) ==
    IF wasInContinuousMode
    THEN [r EXCEPT !.ContinuousMode = TRUE,
                   !.ContinuousModeStartTime = startTime,
                   !.ContinuousModeDuration = duration]
    ELSE r

\* Instance.restartClaudeWithResume() entered at time t; elapsed is the time
\* it takes
RestartOutcome(r, w, in, t) ==
    IF ~in.found
    THEN [o |-> Outcome(r, w, <<"session_missing">>, <<"findSession">>), elapsed |-> 0]
    ELSE
      LET wasInContinuousMode == r.ContinuousMode
          continuousModeStartTime == r.ContinuousModeStartTime
          continuousModeDuration == r.ContinuousModeDuration
          hasT == r.tmuxSession # NoSession
          c    == IF hasT THEN TmuxClose(w, r.tmuxSession.name, in.closeOk)
                          ELSE [w |-> w, ok |-> TRUE]
          steps1 == <<"findSession">>
                    \o (IF hasT THEN <<"SendKeys", "Close">> ELSE <<>>)
                    \o <<"Start">>
          r1 == [r EXCEPT !.tmuxSession =
                              NewTmuxSession(r.Title, ResumeProgram(r.Program))]
          st == TmuxStart(c.w, r1.tmuxSession.name, in.startOk)
      IN
      IF ~st.ok
      THEN [o |-> Outcome(r1, st.w, <<"restart_start">>, steps1), elapsed |-> 0]
      ELSE
        LET p  == ReadinessProbe(in.readyAt)
            r2 == [r1 EXCEPT !.LastActivityTime = t + p.elapsed,
                             !.lastContentHash = ""]
            r3 == RestoreContinuousMode(r2, wasInContinuousMode,
                                        continuousModeStartTime,
                                        continuousModeDuration)
        IN [o |-> Outcome(r3, st.w, <<>>, steps1 \o p.steps), elapsed |-> p.elapsed]

\* readyAt ranges over the retries in R
RestartInputs(R) ==
    { in \in [found : BOOLEAN, closeOk : BOOLEAN, startOk : BOOLEAN, readyAt : R] :
        ~in.found => in.closeOk /\ in.startOk }

\* ManualRestartPrecondition without the Paused check
ManualRestartPrecondition_NoPaused(r) ==
    IF ~r.started THEN <<"not_started">>
    ELSE IF ~IsClaude(r.Program) THEN <<"unsupported_program">>
    ELSE <<>>

\* ManualRestart: the state validation
ManualRestartPrecondition(r) ==
    IF ~r.started THEN <<"not_started">>
    ELSE IF r.Status = Paused THEN <<"paused">>
    ELSE IF ~IsClaude(r.Program) THEN <<"unsupported_program">>
    ELSE <<>>

\* RestartCoolingDown that never holds
RestartCoolingDown_Never(r, t) == FALSE

\* ManualRestart: time.Since(i.LastRestartTime) < restartCooldown, at time t
RestartCoolingDown(r, t) == t - r.LastRestartTime < RestartCooldown

\* ManualRestart that records the attempt only when the restart has succeeded
ManualRestartOutcome_RecordsSuccess(r, w, in, t) ==
    IF ManualRestartPrecondition(r) # <<>>
    THEN [o |-> Outcome(r, w, ManualRestartPrecondition(r), <<>>), elapsed |-> 0]
    ELSE IF RestartCoolingDown(r, t)
    THEN [o |-> Outcome(r, w, <<"cooldown">>, <<>>), elapsed |-> 0]
    ELSE LET recorded == RestartOutcome([r EXCEPT !.LastRestartTime = t,
                                                  !.RestartAttempts = @ + 1], w, in, t)
         IN IF recorded.o.errs = <<>> THEN recorded ELSE RestartOutcome(r, w, in, t)

\* Instance.ManualRestart() called at time t
ManualRestartOutcome(r, w, in, t) ==
    IF ManualRestartPrecondition(r) # <<>>
    THEN [o |-> Outcome(r, w, ManualRestartPrecondition(r), <<>>), elapsed |-> 0]
    ELSE IF RestartCoolingDown(r, t)
    THEN [o |-> Outcome(r, w, <<"cooldown">>, <<>>), elapsed |-> 0]
    ELSE RestartOutcome([r EXCEPT !.LastRestartTime = t,
                                  !.RestartAttempts = @ + 1], w, in, t)

\* CrashRestartGivenUp that never gives up
CrashRestartGivenUp_Never(r, t) == FALSE

\* DetectCrashAndRestart: too many restart attempts recently, at time t
CrashRestartGivenUp(r, t) ==
    /\ r.RestartAttempts >= MaxRestartAttempts
    /\ t - r.LastRestartTime < AutoRestartCooldown

\* Instance.DetectCrashAndRestart() called at time t; val is its result
DetectCrashOutcome(r, w, in, t) ==
    LET no(rr) == [o |-> Outcome(rr, w, <<>>, <<>>), elapsed |-> 0, val |-> "false"]
    IN
    IF ~r.started \/ r.Status = Paused THEN no(r)
    ELSE IF ~IsClaude(r.Program) THEN no(r)
    ELSE IF CrashRestartGivenUp(r, t) THEN no(r)
    ELSE
      LET r1 == IF r.RestartAttempts >= MaxRestartAttempts
                THEN [r EXCEPT !.RestartAttempts = 0] ELSE r
      IN
      IF TmuxCaptureOk(w, r1.tmuxSession.name)
      THEN [o |-> Outcome(r1, w, <<>>, <<"Capture">>), elapsed |-> 0, val |-> "false"]
      ELSE
        LET ro == RestartOutcome([r1 EXCEPT !.RestartAttempts = @ + 1,
                                            !.LastRestartTime = t], w, in, t)
        IN [o |-> [ro.o EXCEPT !.steps = <<"Capture">> \o @],
            elapsed |-> ro.elapsed,
            val |-> IF ro.o.errs = <<>> THEN "true" ELSE "false"]

---------------------------------------------------------------------------
(* The periodic pass                                                       *)

\* Instance.UpdateDiffStats(); diff = what GitWorktree.Diff() reports
UpdateDiffStats(r, diff) ==
    IF ~r.started THEN [r EXCEPT !.diffStats = "nil"]
    ELSE IF r.Status = Paused THEN r
    ELSE IF diff = "nobase" THEN [r EXCEPT !.diffStats = "nil"]
    ELSE IF diff = "error" THEN r
    ELSE [r EXCEPT !.diffStats = "stats"]

\* the status handleMetadataUpdate sets from what HasUpdated reports:
\* "updated", or not updated and "prompt", or "idle"
TickStatus(r, obs) ==
    IF obs = "updated" THEN Running
    ELSE IF obs = "prompt" THEN r.Status
    ELSE Ready

\* TickInstance that does not skip Paused instances
TickInstance_NoPausedSkip(r, obs, diff) ==
    IF ~r.started THEN r
    ELSE UpdateDiffStats([r EXCEPT !.Status = TickStatus(r, obs)], diff)

\* controller.handleMetadataUpdate: the body of the loop for one instance
TickInstance(r, obs, diff) ==
    IF ~r.started \/ r.Status = Paused THEN r
    ELSE UpdateDiffStats([r EXCEPT !.Status = TickStatus(r, obs)], diff)

\* what TmuxSession.HasUpdated can report: nothing of a pane that is gone
Observations(r) ==
    IF r.tmuxSession # NoSession /\ pane[r.tmuxSession.name]
    THEN {"updated", "prompt", "idle"}
    ELSE {"idle"}

---------------------------------------------------------------------------
(* Continuous mode                                                         *)

\* the durations the UI sets: indefinite, or 30 minutes
Durations == {0, 1800}

\* Instance.ToggleContinuousMode() at time t
ToggleContinuousMode(r, t) ==
    IF ~r.ContinuousMode
    THEN [r EXCEPT !.ContinuousMode = TRUE, !.ContinuousModeStartTime = t]
    ELSE [r EXCEPT !.ContinuousMode = FALSE, !.ContinuousModeStartTime = ZeroTime]

\* Instance.SetContinuousModeDuration(duration) at time t
SetContinuousModeDuration(r, duration, t) ==
    [r EXCEPT !.ContinuousModeDuration = duration,
              !.ContinuousModeStartTime = IF r.ContinuousMode THEN t ELSE @]

\* Instance.DisableContinuousMode()
DisableContinuousMode(r) ==
    IF r.ContinuousMode
    THEN [r EXCEPT !.ContinuousMode = FALSE, !.ContinuousModeStartTime = ZeroTime]
    ELSE r

\* Instance.GetContinuousModeTimeRemaining() at time t, in seconds
GetContinuousModeTimeRemaining(r, t) ==
    IF ~r.ContinuousMode \/ r.ContinuousModeDuration = 0 THEN 0
    ELSE LET elapsed == t - r.ContinuousModeStartTime
             remaining == r.ContinuousModeDuration - elapsed
         IN IF remaining < 0 THEN 0 ELSE remaining

---------------------------------------------------------------------------
(* Stall detection and continue injection                                  *)

\* what the program in a pane can show: output of work in progress, a
\* confirmation prompt (a pattern of stallPatterns), the completion status
\* of Claude Code (a pattern of completionPatterns)
Bodies == {"work", "Continue? (y/n)", "auto-accept edits on"}
\* the dynamic elements of a pane: none, or a time of day
Stamps == <<" 13:54:48">>
Dyns == 0..Len(Stamps)

\* tmuxSession.CapturePaneContent() of a pane showing s
Capture(s) == [body |-> s.body, dyn |-> s.dyn]

\* DetectStall: the content holds a pattern of stallPatterns or one of the
\* confirmation prompt structures
hasStallPattern(content) == content.body = "Continue? (y/n)"

\* pane contents with a completion status: one that both DetectStall and
\* InjectContinue know, the same followed by a permission prompt with a
\* "don't ask again" option, and one that only DetectStall knows
KnownCompletion == "auto-accept edits on"
CompletionWithOption == "auto-accept edits on; 2. Yes, and don't ask again"
OtherCompletion == "workflow complete"

\* DetectStall: the content holds a pattern of completionPatterns
hasCompletionPattern(content) ==
    content.body \in {KnownCompletion, CompletionWithOption, OtherCompletion}

\* InjectContinue: the content holds one of the three completion patterns
\* it looks for
hasInjectCompletionPattern(content) ==
    content.body \in {KnownCompletion, CompletionWithOption}

\* InjectContinue: the content holds "don't ask again" and "2."
hasDontAskAgain(content) == content.body = CompletionWithOption

\* Instance.normalizeContent(content): the dynamic elements are removed
normalizeContent(content) == [content EXCEPT !.dyn = 0]

\* Instance.hashContent(content): the SHA-256 digest of the text, without
\* collisions
hashContent(content) ==
    "sha256(" \o content.body
              \o (IF content.dyn = 0 THEN "" ELSE Stamps[content.dyn]) \o ")"

\* DetectStall: the stability window of the continuous-mode path, in seconds
StabilityThreshold == 2

\* DetectStall in continuous mode that does not wait for the stability window
ContinuousStall_NoWindow(r, normalizedHash, t) == r.lastContentHash = normalizedHash

\* DetectStall in continuous mode, on a content with a completion or stall
\* pattern: the normalized content has not changed for the stability window
ContinuousStall(r, normalizedHash, t) ==
    /\ r.lastContentHash = normalizedHash
    /\ t - r.LastActivityTime > StabilityThreshold

\* DetectStall in regular mode, on a content that has not changed
RegularStall(r, content, stallTimeoutSeconds, continuousModeTimeoutSeconds, t) ==
    LET timeoutSeconds == IF r.ContinuousMode THEN continuousModeTimeoutSeconds
                                              ELSE stallTimeoutSeconds
    IN hasStallPattern(content) \/ t - r.LastActivityTime > timeoutSeconds

\* Instance.DetectStall(stallTimeoutSeconds, continuousModeTimeoutSeconds) at
\* time t; s is what the pane shows
DetectStall(r, w, s, stallTimeoutSeconds, continuousModeTimeoutSeconds, t) ==
    IF ~r.started \/ r.Status = Paused \/ ~r.WatchdogEnabled
    THEN [r |-> r, val |-> FALSE]
    ELSE IF ~TmuxCaptureOk(w, r.tmuxSession.name)
    THEN [r |-> r, val |-> FALSE]
    ELSE
      LET content == Capture(s)
          normalizedHash == hashContent(normalizeContent(content))
          currentHash == hashContent(content)
      IN
      IF r.ContinuousMode /\ (hasCompletionPattern(content) \/ hasStallPattern(content))
      THEN IF ContinuousStall(r, normalizedHash, t)
           THEN [r |-> r, val |-> TRUE]
           ELSE IF r.lastContentHash # normalizedHash
           THEN [r |-> [r EXCEPT !.lastContentHash = normalizedHash,
                                 !.LastActivityTime = t],
                 val |-> FALSE]
           ELSE [r |-> r, val |-> FALSE]
      ELSE IF r.lastContentHash # currentHash
      THEN [r |-> [r EXCEPT !.lastContentHash = currentHash,
                            !.LastActivityTime = t],
            val |-> FALSE]
      ELSE [r |-> r,
            val |-> RegularStall(r, content, stallTimeoutSeconds,
                                 continuousModeTimeoutSeconds, t)]

\* InjectContinue: the message for continuous mode, with the time remaining
\* or for an indefinite duration
TimedMsg == "/continuous time remaining"
IndefiniteMsg == "/continuous indefinite duration"
ContinuousMsg(r, t) ==
    IF GetContinuousModeTimeRemaining(r, t) > 0 THEN TimedMsg ELSE IndefiniteMsg

\* InjectContinue at time t: the commands it tries, in order; given is its
\* argument
ContinueCommands(r, w, s, given, t) ==
    LET default == IF given = <<>>
                   THEN <<"1", "continue", "yes", "y", "proceed", "\n">>
                   ELSE given
        content == Capture(s)
    IN IF ~TmuxCaptureOk(w, r.tmuxSession.name) THEN default
       ELSE IF hasDontAskAgain(content) THEN <<"2", "yes", "1", "y", "continue">>
       ELSE IF r.ContinuousMode /\ hasInjectCompletionPattern(content)
       THEN <<ContinuousMsg(r, t), "continue", "\n">>
       ELSE default

\* Instance.InjectContinue(continueCommands) at time t: every SendPrompt
\* fails when the pane is gone; sent is the command that went through
InjectContinue(r, w, s, given, t) ==
    IF ~r.started \/ r.Status = Paused
    THEN [r |-> r, errs |-> <<"not_running">>, sent |-> ""]
    ELSE IF ~TmuxCaptureOk(w, r.tmuxSession.name)
    THEN [r |-> r, errs |-> <<"no_command_sent">>, sent |-> ""]
    ELSE [r |-> [r EXCEPT !.StallCount = @ + 1, !.LastActivityTime = t],
          errs |-> <<>>,
          sent |-> Head(ContinueCommands(r, w, s, given, t))]

---------------------------------------------------------------------------
(* Persistence                                                             *)

\* Instance.ToInstanceData()
ToInstanceData(r) ==
    [ Title |-> r.Title, Branch |-> r.Branch, Status |-> r.Status,
      Program |-> r.Program, AutoYes |-> r.AutoYes,
      WatchdogEnabled |-> r.WatchdogEnabled,
      ContinuousMode |-> r.ContinuousMode,
      ContinuousModeStartTime |-> r.ContinuousModeStartTime,
      ContinuousModeDuration |-> r.ContinuousModeDuration,
      LastActivityTime |-> r.LastActivityTime, StallCount |-> r.StallCount,
      RestartAttempts |-> r.RestartAttempts, LastRestartTime |-> r.LastRestartTime,
      Worktree |-> r.gitWorktree,
      DiffStats |-> IF r.diffStats = "nil" THEN "zero" ELSE r.diffStats ]

\* FromInstanceData(data) at time t: errs # <<>> means it returns no instance
FromInstanceData(data, w, in, t) ==
    LET instance ==
          [ Title |-> data.Title, Status |-> data.Status, Program |-> data.Program,
            AutoYes |-> FALSE, Branch |-> data.Branch, diffStats |-> data.DiffStats,
            LastActivityTime |-> data.LastActivityTime,
            StallCount |-> data.StallCount,
            WatchdogEnabled |-> data.WatchdogEnabled,
            ContinuousMode |-> data.ContinuousMode,
            ContinuousModeStartTime |-> data.ContinuousModeStartTime,
            ContinuousModeDuration |-> data.ContinuousModeDuration,
            lastContentHash |-> "",
            RestartAttempts |-> data.RestartAttempts,
            LastRestartTime |-> data.LastRestartTime,
            started |-> FALSE, tmuxSession |-> NoSession,
            gitWorktree |-> data.Worktree ]
    IN IF instance.Status = Paused
       THEN Outcome([instance EXCEPT
                        !.started = TRUE,
                        !.tmuxSession = NewTmuxSession(instance.Title, instance.Program)],
                    w, <<>>, <<>>)
       ELSE StartOutcome(instance, w, FALSE, in, t)

\* Instance.ToInstanceData() of the version of the supervisor that had
\* continuous mode without a start time and a duration: read back, the
\* fields it does not write are zero
LegacyToInstanceData(r) ==
    [ToInstanceData(r) EXCEPT !.ContinuousModeStartTime = ZeroTime,
                              !.ContinuousModeDuration = 0]

---------------------------------------------------------------------------
(* Actions                                                                 *)

\* an Instance that does not exist
Unborn == NewInstance("")

\* a goroutine that is not in the restart path; saved: the continuous-mode
\* fields restartClaudeWithResume keeps in locals
Idle == [pc |-> "idle", retry |-> 0, errs |-> <<>>,
         saved |-> [was |-> FALSE, start |-> ZeroTime, duration |-> 0]]

\* a pane capture: its text (body), the state of its dynamic elements
\* (dyn: timestamps, percentages, ANSI sequences; 0 = it has none), and the
\* number of injections made since it last changed
Blank == [body |-> "work", dyn |-> 0, injected |-> 0]

InFleet(i) == life[i] = "fleet"

\* list.NumInstances()
NumInstances == Cardinality({i \in DOMAIN life : life[i] = "fleet"})

\* GlobalInstanceLimit
GlobalInstanceLimit == 10

\* FleetFull that never holds
FleetFull_Never == FALSE

\* handleNewInstance: the list holds GlobalInstanceLimit instances
FleetFull == NumInstances >= GlobalInstanceLimit

\* controller.handleNewInstance -> session.NewInstance
DoNewInstance(i) ==
    /\ life[i] = "none"
    /\ IF FleetFull
       THEN /\ ret' = [op |-> "NewInstance", inst |-> i, errs |-> <<"limit">>,
                       steps |-> <<>>, val |-> ""]
            /\ UNCHANGED <<inst, life>>
       ELSE /\ \E program \in Programs :
                 inst' = [inst EXCEPT ![i] = NewInstance(program)]
            /\ life' = [life EXCEPT ![i] = "fleet"]
            /\ ret' = [op |-> "NewInstance", inst |-> i, errs |-> <<>>,
                       steps |-> <<>>, val |-> ""]
    /\ UNCHANGED <<pane, wt, branch, checkout, now>>
    /\ UNCHANGED <<run, screen>>

\* Instance.SetTitle(title)
DoSetTitle(i, T) ==
    /\ InFleet(i)
    /\ \E title \in T :
         IF inst[i].started
         THEN /\ ret' = [op |-> "SetTitle", inst |-> i, errs |-> <<"started">>,
                         steps |-> <<>>, val |-> ""]
              /\ UNCHANGED inst
         ELSE /\ inst' = [inst EXCEPT ![i].Title = title]
              /\ ret' = [op |-> "SetTitle", inst |-> i, errs |-> <<>>,
                         steps |-> <<>>, val |-> ""]
    /\ UNCHANGED <<life, pane, wt, branch, checkout, now>>
    /\ UNCHANGED <<run, screen>>

\* controller.finalizeNewInstance -> Instance.Start(true), on an instance
\* that has not been started
DoStart(i) ==
    /\ InFleet(i)
    /\ ~inst[i].started
    /\ \E in \in StartInputs :
         Apply("Start", i, StartOutcome(inst[i], World, TRUE, in, now))
    /\ UNCHANGED <<life, now>>
    /\ UNCHANGED <<run, screen>>

\* Instance.Pause()
DoPause(i) ==
    /\ InFleet(i)
    /\ \E in \in PauseInputs :
         Apply("Pause", i, PauseOutcome(inst[i], World, in))
    /\ UNCHANGED <<life, now>>
    /\ UNCHANGED <<run, screen>>

\* Instance.Resume()
DoResume(i) ==
    /\ InFleet(i)
    /\ \E in \in ResumeInputs :
         Apply("Resume", i, ResumeOutcome(inst[i], World, in))
    /\ UNCHANGED <<life, now>>
    /\ UNCHANGED <<run, screen>>

\* Instance.Kill(): on an instance of the fleet, or again on a killed one
DoKill(i) ==
    /\ life[i] \in {"fleet", "killed"}
    /\ \E closeOk \in BOOLEAN, cleanupOk \in BOOLEAN :
         Apply("Kill", i, KillOutcome(inst[i], World, closeOk, cleanupOk))
    /\ life' = [life EXCEPT ![i] = IF inst[i].started THEN "killed" ELSE @]
    /\ UNCHANGED now
    /\ UNCHANGED <<run, screen>>

\* Instance.ManualRestart(); the clock moves by the time the restart takes
DoManualRestart(i, R, H) ==
    /\ InFleet(i)
    /\ \E in \in RestartInputs(R) :
         LET m == ManualRestartOutcome(inst[i], World, in, now)
         IN /\ now + m.elapsed <= H
            /\ Apply("ManualRestart", i, m.o)
            /\ now' = now + m.elapsed
    /\ UNCHANGED life
    /\ UNCHANGED <<run, screen>>

\* Instance.DetectCrashAndRestart(), the watchdog's crash detection
DoDetectCrashAndRestart(i, R, H) ==
    /\ InFleet(i)
    /\ \E in \in RestartInputs(R) :
         LET d == DetectCrashOutcome(inst[i], World, in, now)
         IN /\ now + d.elapsed <= H
            /\ inst' = [inst EXCEPT ![i] = d.o.r]
            /\ pane' = d.o.w.pane
            /\ wt' = d.o.w.wt
            /\ branch' = d.o.w.branch
            /\ checkout' = d.o.w.checkout
            /\ ret' = Return("DetectCrashAndRestart", i, d.o, d.val)
            /\ now' = now + d.elapsed
    /\ UNCHANGED life
    /\ UNCHANGED <<run, screen>>

\* Instance.TapEnter() sends an Enter to the pane
TapEnterSends(r) == r.started /\ r.AutoYes

\* what one pass of handleMetadataUpdate sees and does at instance i
TickTrace(i, r, obs) ==
    IF ~r.started \/ r.Status = Paused THEN <<>>
    ELSE <<i \o ":" \o obs>> \o
         (IF obs = "prompt" /\ TapEnterSends(r) THEN <<i \o ":TapEnter">> ELSE <<>>)

\* controller.handleMetadataUpdate: one pass over the instances of the list
DoTick ==
    /\ \E obs \in [Inst -> {"updated", "prompt", "idle"}],
          diff \in [Inst -> {"ok", "nobase", "error"}] :
         /\ \A i \in Inst : obs[i] \in Observations(inst[i])
         /\ \A i \in Inst : ~InFleet(i) => diff[i] = "ok"
         /\ inst' = [i \in Inst |->
                       IF InFleet(i) THEN TickInstance(inst[i], obs[i], diff[i])
                                     ELSE inst[i]]
         /\ ret' = [op |-> "Tick", inst |-> "", errs |-> <<>>,
                    steps |-> (IF InFleet("i1")
                               THEN TickTrace("i1", inst["i1"], obs["i1"]) ELSE <<>>)
                              \o (IF InFleet("i2")
                                  THEN TickTrace("i2", inst["i2"], obs["i2"]) ELSE <<>>),
                    val |-> ""]
    /\ UNCHANGED <<life, pane, wt, branch, checkout, now>>
    /\ UNCHANGED <<run, screen>>

\* an operation on instance i that touches only the instance
Update(op, i, r, val) ==
    /\ inst' = [inst EXCEPT ![i] = r]
    /\ ret' = [op |-> op, inst |-> i, errs |-> <<>>, steps |-> <<>>, val |-> val]
    /\ UNCHANGED <<life, pane, wt, branch, checkout, now, run, screen>>

\* Instance.ToggleContinuousMode()
DoToggleContinuousMode(i) ==
    /\ InFleet(i)
    /\ Update("ToggleContinuousMode", i, ToggleContinuousMode(inst[i], now), "")

\* Instance.SetContinuousModeDuration(duration)
DoSetContinuousModeDuration(i) ==
    /\ InFleet(i)
    /\ \E duration \in Durations :
         Update("SetContinuousModeDuration", i,
                SetContinuousModeDuration(inst[i], duration, now), "")

\* Instance.DisableContinuousMode()
DoDisableContinuousMode(i) ==
    /\ InFleet(i)
    /\ Update("DisableContinuousMode", i, DisableContinuousMode(inst[i]), "")

\* the supervisor exits and starts again: Store saves the started instances
\* and LoadInstances rehydrates each of them with FromInstanceData
DoReload ==
    /\ \E i \in Inst : InFleet(i) /\ inst[i].started
    /\ LET in == [newOk |-> TRUE, setupOk |-> TRUE, startOk |-> TRUE,
                  cleanupOk |-> TRUE, closeOk |-> TRUE, killCleanupOk |-> TRUE]
           load(i) == FromInstanceData(ToInstanceData(inst[i]), World, in, now)
           kept(i) == InFleet(i) /\ inst[i].started /\ load(i).errs = <<>>
       IN /\ inst' = [i \in Inst |-> IF kept(i) THEN load(i).r ELSE Unborn]
          /\ life' = [i \in Inst |-> IF kept(i) THEN "fleet" ELSE "none"]
    /\ ret' = [op |-> "Reload", inst |-> "", errs |-> <<>>, steps |-> <<>>, val |-> ""]
    /\ UNCHANGED <<pane, wt, branch, checkout, now>>
    /\ UNCHANGED <<run, screen>>

\* the program in a pane exits or crashes: the pane is gone
PaneCrash(name) ==
    /\ pane[name]
    /\ pane' = [pane EXCEPT ![name] = FALSE]
    /\ ret' = [op |-> "PaneCrash", inst |-> "", errs |-> <<>>, steps |-> <<>>, val |-> ""]
    /\ UNCHANGED <<inst, life, wt, branch, checkout, now>>
    /\ UNCHANGED <<run, screen>>

\* the operator checks a branch out in the repository (possible only while
\* no working tree holds it), or switches the repository to another branch
SwitchBranch(name) ==
    /\ branch[name]
    /\ ~wt[name]
    /\ checkout' = [checkout EXCEPT ![name] = ~@]
    /\ ret' = [op |-> "SwitchBranch", inst |-> "", errs |-> <<>>, steps |-> <<>>,
               val |-> ""]
    /\ UNCHANGED <<inst, life, pane, wt, branch, now>>
    /\ UNCHANGED <<run, screen>>

\* time passes: step seconds, up to the horizon H
Advance(step, H) ==
    /\ now + step <= H
    /\ now' = now + step
    /\ ret' = [op |-> "Advance", inst |-> "", errs |-> <<>>, steps |-> <<>>, val |-> ""]
    /\ UNCHANGED <<inst, life, pane, wt, branch, checkout>>
    /\ UNCHANGED <<run, screen>>

Init ==
    /\ inst = [i \in Inst |-> Unborn]
    /\ life = [i \in Inst |-> "none"]
    /\ pane = [t \in Titles |-> FALSE]
    /\ wt = [t \in Titles |-> FALSE]
    /\ branch = [t \in Titles |-> FALSE]
    /\ checkout = [t \in Titles |-> FALSE]
    /\ now = 0
    /\ run = [p \in Runners |-> Idle]
    /\ screen = [t \in Titles |-> Blank]
    /\ ret = [op |-> "Init", inst |-> "", errs |-> <<>>, steps |-> <<>>, val |-> ""]

\* the operations on the instances of I, titled from T, with the restarted
\* pane ready at a retry of R, up to the horizon H
NextOps(I, T, R, H) ==
    \/ \E i \in I : DoNewInstance(i)
    \/ \E i \in I : DoSetTitle(i, T)
    \/ \E i \in I : DoStart(i)
    \/ \E i \in I : DoPause(i)
    \/ \E i \in I : DoResume(i)
    \/ \E i \in I : DoKill(i)
    \/ \E i \in I : DoManualRestart(i, R, H)
    \/ \E i \in I : DoDetectCrashAndRestart(i, R, H)
    \/ DoTick
    \/ DoReload
    \/ \E name \in T : SwitchBranch(name)
    \/ Advance(1, H)

\* one instance, its operations and its environment
Next ==
    \/ NextOps({"i1"}, {"feat"}, {0}, MaxTime)
    \/ PaneCrash("feat")

Spec == Init /\ [][Next]_vars

\* the operations alone: no pane ever exits by itself
NextNoCrash == NextOps({"i1"}, {"feat"}, {0}, MaxTime)

SpecOps == Init /\ [][NextNoCrash]_vars

---------------------------------------------------------------------------
(* The restart specification: one claude instance that has been created,   *)
(* titled and started, with the clock running to RestartHorizon            *)

Started(program, title) ==
    [NewInstance(program) EXCEPT
        !.Title = title, !.Status = Running, !.started = TRUE,
        !.tmuxSession = NewTmuxSession(title, program),
        !.gitWorktree = title, !.Branch = title]

InitRestart ==
    /\ inst = [i \in Inst |-> IF i = "i1" THEN Started("claude code", "feat")
                                          ELSE Unborn]
    /\ life = [i \in Inst |-> IF i = "i1" THEN "fleet" ELSE "none"]
    /\ pane = [t \in Titles |-> t = "feat"]
    /\ wt = [t \in Titles |-> t = "feat"]
    /\ branch = [t \in Titles |-> t = "feat"]
    /\ checkout = [t \in Titles |-> FALSE]
    /\ now = 0
    /\ run = [p \in Runners |-> Idle]
    /\ screen = [t \in Titles |-> Blank]
    /\ ret = [op |-> "Start", inst |-> "i1", errs |-> <<>>,
              steps |-> <<"NewGitWorktree", "Setup", "Start">>, val |-> ""]

NextRestart ==
    \/ DoManualRestart("i1", ProbeCases, RestartHorizon)
    \/ DoDetectCrashAndRestart("i1", ProbeCases, RestartHorizon)
    \/ DoTick
    \/ DoToggleContinuousMode("i1")
    \/ DoSetContinuousModeDuration("i1")
    \/ DoDisableContinuousMode("i1")
    \/ PaneCrash("feat")
    \/ Advance(5, RestartHorizon)

SpecRestart == InitRestart /\ [][NextRestart]_vars

---------------------------------------------------------------------------
(* The restart path step by step: ManualRestart holds the instance's mutex *)
(* from its first line to its return, DetectCrashAndRestart takes no lock, *)
(* and restartClaudeWithResume sleeps between its steps                    *)

\* the goroutine is between the first and the last step of
\* restartClaudeWithResume
InRestartPath(p) == run[p].pc \in {"exit_sent", "closed", "probing"}

\* i.mu.Lock() in ManualRestart succeeds: no other ManualRestart holds it
LockFree == \A p \in Callers : ~InRestartPath(p)

\* the goroutine has returned with errs
Returned(errs) == [Idle EXCEPT !.pc = "returned", !.errs = errs]

\* the periodic pass runs the watchdog on a started, non-Paused instance
\* whose watchdog is enabled
WatchdogPass(i) ==
    /\ InFleet(i)
    /\ inst[i].started
    /\ inst[i].Status # Paused
    /\ inst[i].WatchdogEnabled

\* restartClaudeWithResume from its entry to the sleep after SendKeys("exit"):
\* r is the instance as its caller has left it
RestartBegin(p, i, r, found) ==
    /\ inst' = [inst EXCEPT ![i] = r]
    /\ run' = [run EXCEPT ![p] =
                 IF found
                 THEN [pc |-> "exit_sent", retry |-> 0, errs |-> <<>>,
                       saved |-> [was |-> r.ContinuousMode,
                                  start |-> r.ContinuousModeStartTime,
                                  duration |-> r.ContinuousModeDuration]]
                 ELSE Returned(<<"session_missing">>)]

\* the step of a goroutine in the restart path of instance i
Step(op, p, i) == [op |-> op, inst |-> i, errs |-> <<>>, steps |-> <<>>, val |-> p]

\* ManualRestart from i.mu.Lock() to the first sleep of the restart
ManualRestartEnter(p, i) ==
    /\ run[p].pc = "waiting"
    /\ LockFree
    /\ IF ManualRestartPrecondition(inst[i]) # <<>>
       THEN /\ run' = [run EXCEPT ![p] = Returned(ManualRestartPrecondition(inst[i]))]
            /\ UNCHANGED inst
       ELSE IF RestartCoolingDown(inst[i], now)
       THEN /\ run' = [run EXCEPT ![p] = Returned(<<"cooldown">>)]
            /\ UNCHANGED inst
       ELSE \E found \in BOOLEAN :
              RestartBegin(p, i, [inst[i] EXCEPT !.LastRestartTime = now,
                                                 !.RestartAttempts = @ + 1], found)
    /\ ret' = Step("ManualRestartEnter", p, i)
    /\ UNCHANGED <<life, pane, wt, branch, checkout, now, screen>>

\* DetectCrashAndRestart, called by the periodic pass, to the first sleep of
\* the restart (or to its return when it restarts nothing)
DetectCrashEnter(p, i) ==
    /\ run[p].pc = "idle"
    /\ WatchdogPass(i)
    /\ IsClaude(inst[i].Program)
    /\ ~CrashRestartGivenUp(inst[i], now)
    /\ LET r1 == IF inst[i].RestartAttempts >= MaxRestartAttempts
                 THEN [inst[i] EXCEPT !.RestartAttempts = 0] ELSE inst[i]
       IN IF TmuxCaptureOk(World, r1.tmuxSession.name)
          THEN /\ inst' = [inst EXCEPT ![i] = r1]
               /\ UNCHANGED run
          ELSE \E found \in BOOLEAN :
                 RestartBegin(p, i, [r1 EXCEPT !.RestartAttempts = @ + 1,
                                               !.LastRestartTime = now], found)
    /\ ret' = Step("DetectCrashEnter", p, i)
    /\ UNCHANGED <<life, pane, wt, branch, checkout, now, screen>>

\* restartClaudeWithResume: Close of the old session (an error is only
\* logged) and the new TmuxSession handle
RestartClose(p, i) ==
    /\ run[p].pc = "exit_sent"
    /\ \E closeOk \in BOOLEAN :
         pane' = TmuxClose(World, inst[i].tmuxSession.name, closeOk).w.pane
    /\ inst' = [inst EXCEPT ![i].tmuxSession =
                  NewTmuxSession(inst[i].Title, ResumeProgram(inst[i].Program))]
    /\ run' = [run EXCEPT ![p].pc = "closed"]
    /\ ret' = Step("RestartClose", p, i)
    /\ UNCHANGED <<life, wt, branch, checkout, now, screen>>

\* restartClaudeWithResume: Start of the new session
RestartStart(p, i) ==
    /\ run[p].pc = "closed"
    /\ \E startOk \in BOOLEAN :
         LET st == TmuxStart(World, inst[i].tmuxSession.name, startOk)
         IN /\ pane' = st.w.pane
            /\ run' = [run EXCEPT ![p] =
                         IF st.ok THEN [@ EXCEPT !.pc = "probing"]
                                  ELSE Returned(<<"restart_start">>)]
    /\ ret' = Step("RestartStart", p, i)
    /\ UNCHANGED <<inst, life, wt, branch, checkout, now, screen>>

\* restartClaudeWithResume: one round of the readiness probe (sleep 1<<retry
\* seconds, capture), and after the last round the end of the function
RestartProbe(p, i, H) ==
    /\ run[p].pc = "probing"
    /\ now + 2^run[p].retry <= H
    /\ now' = now + 2^run[p].retry
    /\ \E ready \in BOOLEAN :
         /\ ready => TmuxCaptureOk(World, inst[i].tmuxSession.name)
         /\ IF ready \/ run[p].retry = MaxRetries - 1
            THEN /\ inst' = [inst EXCEPT ![i] =
                      RestoreContinuousMode(
                          [inst[i] EXCEPT !.LastActivityTime = now',
                                          !.lastContentHash = ""],
                          run[p].saved.was, run[p].saved.start,
                          run[p].saved.duration)]
                 /\ run' = [run EXCEPT ![p] = Returned(<<>>)]
            ELSE /\ run' = [run EXCEPT ![p].retry = @ + 1]
                 /\ UNCHANGED inst
    /\ ret' = Step("RestartProbe", p, i)
    /\ UNCHANGED <<life, pane, wt, branch, checkout, screen>>

\* DetectCrashAndRestart has returned to the periodic pass
WatchdogReturn(p) ==
    /\ run[p].pc = "returned"
    /\ run' = [run EXCEPT ![p] = Idle]
    /\ ret' = Step("WatchdogReturn", p, "")
    /\ UNCHANGED <<inst, life, pane, wt, branch, checkout, now, screen>>

\* a started claude instance with its watchdog on; the UI has dispatched a
\* ManualRestart on every goroutine of Callers and none has the mutex yet
InitConc ==
    /\ inst = [i \in Inst |->
                 IF i = "i1"
                 THEN InitializeWatchdog(Started("claude code", "feat"), TRUE, 0)
                 ELSE Unborn]
    /\ life = [i \in Inst |-> IF i = "i1" THEN "fleet" ELSE "none"]
    /\ pane = [t \in Titles |-> t = "feat"]
    /\ wt = [t \in Titles |-> t = "feat"]
    /\ branch = [t \in Titles |-> t = "feat"]
    /\ checkout = [t \in Titles |-> FALSE]
    /\ now = 0
    /\ run = [p \in Runners |->
                IF p \in Callers THEN [Idle EXCEPT !.pc = "waiting"] ELSE Idle]
    /\ screen = [t \in Titles |-> Blank]
    /\ ret = [op |-> "Start", inst |-> "i1", errs |-> <<>>,
              steps |-> <<"NewGitWorktree", "Setup", "Start">>, val |-> ""]

NextConc ==
    \/ \E p \in Callers : ManualRestartEnter(p, "i1")
    \/ DetectCrashEnter("watchdog", "i1")
    \/ \E p \in Runners : RestartClose(p, "i1")
    \/ \E p \in Runners : RestartStart(p, "i1")
    \/ \E p \in Runners : RestartProbe(p, "i1", ConcHorizon)
    \/ WatchdogReturn("watchdog")
    \/ PaneCrash("feat")

SpecConc == InitConc /\ [][NextConc]_vars

\* the operator changes continuous mode from the UI: each of the three
\* methods starts with i.mu.Lock(), so it runs when no ManualRestart holds
\* the mutex
OperatorChange(i) ==
    /\ LockFree
    /\ \/ DoToggleContinuousMode(i)
       \/ DoDisableContinuousMode(i)
       \/ DoSetContinuousModeDuration(i)

\* as InitConc, with continuous mode switched on before the restarts are
\* dispatched
InitOperator ==
    /\ inst = [i \in Inst |->
                 IF i = "i1"
                 THEN ToggleContinuousMode(
                          InitializeWatchdog(Started("claude code", "feat"), TRUE, 0), 0)
                 ELSE Unborn]
    /\ life = [i \in Inst |-> IF i = "i1" THEN "fleet" ELSE "none"]
    /\ pane = [t \in Titles |-> t = "feat"]
    /\ wt = [t \in Titles |-> t = "feat"]
    /\ branch = [t \in Titles |-> t = "feat"]
    /\ checkout = [t \in Titles |-> FALSE]
    /\ now = 0
    /\ run = [p \in Runners |->
                IF p \in Callers THEN [Idle EXCEPT !.pc = "waiting"] ELSE Idle]
    /\ screen = [t \in Titles |-> Blank]
    /\ ret = [op |-> "ToggleContinuousMode", inst |-> "i1", errs |-> <<>>,
              steps |-> <<>>, val |-> ""]

NextOperator ==
    \/ NextConc
    \/ OperatorChange("i1")

SpecOperator == InitOperator /\ [][NextOperator]_vars

---------------------------------------------------------------------------
(* The watchdog specification: one started claude instance, the program in *)
(* its pane, and the watchdog's pass over it                               *)

\* the clock of the watchdog specification stops at StallHorizon
StallHorizon == 3
\* the watchdog specification follows StallCount, and the injections into an
\* unchanged pane, up to MaxStallCount
MaxStallCount == 4

\* max_continue_attempts: the default of the configuration
MaxContinueAttempts == 3

\* the timeouts the watchdog passes to DetectStall, in seconds:
\* stall_timeout_seconds and the shorter one of continuous mode
Timeouts == [normal : {2}, continuous : {1}]

\* the program in the pane prints: the pane shows something else
PaneOutput(name) ==
    /\ pane[name]
    /\ \E body \in Bodies, dyn \in Dyns :
         /\ <<body, dyn>> # <<screen[name].body, screen[name].dyn>>
         /\ screen' = [screen EXCEPT
                          ![name] = [body |-> body, dyn |-> dyn, injected |-> 0]]
    /\ ret' = [op |-> "PaneOutput", inst |-> "", errs |-> <<>>, steps |-> <<>>,
               val |-> ""]
    /\ UNCHANGED <<inst, life, pane, wt, branch, checkout, now, run>>

\* the UI switches the watchdog of instance i on or off
DoInitializeWatchdog(i) ==
    /\ InFleet(i)
    /\ \E enabled \in BOOLEAN :
         Update("InitializeWatchdog", i, InitializeWatchdog(inst[i], enabled, now), "")

\* the watchdog's part of the periodic pass, for instance i:
\* detectCrashAndRestart(); then detectStall(...); if stalled,
\* injectContinue(...)
WatchdogTick(i, H) ==
    /\ WatchdogPass(i)
    /\ \E in \in {x \in RestartInputs({0}) : x.found /\ x.closeOk /\ x.startOk},
          cfg \in Timeouts :
         LET d == DetectCrashOutcome(inst[i], World, in, now)
             t == now + d.elapsed
             name == d.o.r.tmuxSession.name
             s == DetectStall(d.o.r, d.o.w, screen[name], cfg.normal,
                              cfg.continuous, t)
             j == IF s.val
                  THEN InjectContinue(s.r, d.o.w, screen[name], <<>>, t)
                  ELSE [r |-> s.r, errs |-> <<>>, sent |-> ""]
         IN /\ t <= H
            /\ j.r.StallCount <= MaxStallCount
            /\ j.sent # "" => screen[name].injected < MaxStallCount
            /\ inst' = [inst EXCEPT ![i] = j.r]
            /\ pane' = d.o.w.pane
            /\ wt' = d.o.w.wt
            /\ branch' = d.o.w.branch
            /\ checkout' = d.o.w.checkout
            /\ screen' = [screen EXCEPT
                             ![name].injected = IF j.sent # "" THEN @ + 1 ELSE @]
            /\ ret' = [op |-> "WatchdogTick", inst |-> i, errs |-> j.errs,
                       steps |-> d.o.steps \o <<"DetectStall">>
                                 \o (IF s.val THEN <<"InjectContinue">> ELSE <<>>),
                       val |-> IF s.val THEN "true" ELSE "false"]
            /\ now' = t
    /\ UNCHANGED <<life, run>>

\* the instance has been started, with or without the flag that sets
\* AutoYes, and continuous mode has or has not been switched on
InitStall ==
    /\ \E autoYes \in BOOLEAN, continuous \in BOOLEAN :
         LET r == [Started("claude code", "feat") EXCEPT !.AutoYes = autoYes]
         IN inst = [i \in Inst |->
                      IF i # "i1" THEN Unborn
                      ELSE IF continuous THEN ToggleContinuousMode(r, 0) ELSE r]
    /\ life = [i \in Inst |-> IF i = "i1" THEN "fleet" ELSE "none"]
    /\ pane = [t \in Titles |-> t = "feat"]
    /\ wt = [t \in Titles |-> t = "feat"]
    /\ branch = [t \in Titles |-> t = "feat"]
    /\ checkout = [t \in Titles |-> FALSE]
    /\ now = 0
    /\ run = [p \in Runners |-> Idle]
    /\ screen = [t \in Titles |-> Blank]
    /\ ret = [op |-> "Start", inst |-> "i1", errs |-> <<>>,
              steps |-> <<"NewGitWorktree", "Setup", "Start">>, val |-> ""]

NextStall ==
    \/ WatchdogTick("i1", StallHorizon)
    \/ PaneOutput("feat")
    \/ DoInitializeWatchdog("i1")
    \/ DoReload
    \/ Advance(1, StallHorizon)

SpecStall == InitStall /\ [][NextStall]_vars

---------------------------------------------------------------------------
(* The recovery specification: the restart specification on a clock that   *)
(* runs past the cool-down of automatic crash recovery                     *)

\* the clock of the recovery specification stops at RecoveryHorizon
RecoveryHorizon == 320
\* the recovery specification follows RestartAttempts up to RecoveryAttempts
RecoveryAttempts == 4

\* Instance.ManualRestart(), while RestartAttempts is below RecoveryAttempts
DoManualRestartUpTo(i, R, H) ==
    /\ inst[i].RestartAttempts < RecoveryAttempts
    /\ DoManualRestart(i, R, H)

NextRecovery ==
    \/ DoManualRestartUpTo("i1", {0}, RecoveryHorizon)
    \/ DoDetectCrashAndRestart("i1", {0}, RecoveryHorizon)
    \/ PaneCrash("feat")
    \/ Advance(150, RecoveryHorizon)

SpecRecovery == InitRestart /\ [][NextRecovery]_vars

---------------------------------------------------------------------------
(* The continuous-mode specification: one claude instance loaded from the  *)
(* store, the operations on its continuous mode and the periodic pass, on  *)
(* a clock that runs past the durations the UI sets                        *)

\* the clock of the continuous-mode specification stops at ContinuousHorizon
ContinuousHorizon == 2700

\* Instance.GetContinuousModeTimeRemaining()
DoGetContinuousModeTimeRemaining(i) ==
    /\ InFleet(i)
    /\ ret' = [op |-> "GetContinuousModeTimeRemaining", inst |-> i, errs |-> <<>>,
               steps |-> <<>>,
               val |-> GetContinuousModeTimeRemaining(inst[i], now)]
    /\ UNCHANGED <<inst, life, pane, wt, branch, checkout, now, run, screen>>

\* the world of an instance titled "feat" that is running
FeatWorld ==
    [pane |-> [t \in Titles |-> t = "feat"], wt |-> [t \in Titles |-> t = "feat"],
     branch |-> [t \in Titles |-> t = "feat"], checkout |-> [t \in Titles |-> FALSE]]

\* a running claude instance: one this run of the supervisor has created,
\* with or without the flag that sets AutoYes, or one it has loaded from a
\* store written by the version before it, with continuous mode on or off
InitContinuous ==
    /\ \E autoYes \in BOOLEAN, legacy \in BOOLEAN, continuous \in BOOLEAN :
         LET created == [Started("claude code", "feat") EXCEPT !.AutoYes = autoYes]
             saved == [Started("claude code", "feat") EXCEPT
                          !.ContinuousMode = continuous]
             in == [newOk |-> TRUE, setupOk |-> TRUE, startOk |-> TRUE,
                    cleanupOk |-> TRUE, closeOk |-> TRUE, killCleanupOk |-> TRUE]
             load == FromInstanceData(LegacyToInstanceData(saved), FeatWorld, in, 0)
         IN /\ legacy => ~autoYes
            /\ ~legacy => ~continuous
            /\ inst = [i \in Inst |->
                         IF i # "i1" THEN Unborn
                         ELSE IF legacy THEN load.r ELSE created]
    /\ life = [i \in Inst |-> IF i = "i1" THEN "fleet" ELSE "none"]
    /\ pane = FeatWorld.pane
    /\ wt = FeatWorld.wt
    /\ branch = FeatWorld.branch
    /\ checkout = FeatWorld.checkout
    /\ now = 0
    /\ run = [p \in Runners |-> Idle]
    /\ screen = [t \in Titles |-> Blank]
    /\ ret = [op |-> "Reload", inst |-> "", errs |-> <<>>, steps |-> <<>>, val |-> ""]

NextContinuous ==
    \/ DoToggleContinuousMode("i1")
    \/ DoSetContinuousModeDuration("i1")
    \/ DoDisableContinuousMode("i1")
    \/ DoGetContinuousModeTimeRemaining("i1")
    \/ DoManualRestart("i1", {0}, ContinuousHorizon)
    \/ DoTick
    \/ DoReload
    \/ Advance(900, ContinuousHorizon)

SpecContinuous == InitContinuous /\ [][NextContinuous]_vars

---------------------------------------------------------------------------
(* The fleet specification: the list of the supervisor, with room for one  *)
(* instance more than it may hold; instances are created and removed       *)
(* before they are named                                                   *)

\* the instances the fleet specification can create
FleetSlots == 11
Slots == 1..FleetSlots

\* the operator leaves the naming of instance i with Esc: list.Kill()
\* removes it from the list
DoEscape(i) ==
    /\ InFleet(i)
    /\ ~inst[i].started
    /\ inst' = [inst EXCEPT ![i] = Unborn]
    /\ life' = [life EXCEPT ![i] = "none"]
    /\ ret' = [op |-> "Escape", inst |-> i, errs |-> <<>>, steps |-> <<>>, val |-> ""]
    /\ UNCHANGED <<pane, wt, branch, checkout, now, run, screen>>

InitFleet ==
    /\ inst = [i \in Slots |-> Unborn]
    /\ life = [i \in Slots |-> "none"]
    /\ pane = [t \in Titles |-> FALSE]
    /\ wt = [t \in Titles |-> FALSE]
    /\ branch = [t \in Titles |-> FALSE]
    /\ checkout = [t \in Titles |-> FALSE]
    /\ now = 0
    /\ run = [p \in Runners |-> Idle]
    /\ screen = [t \in Titles |-> Blank]
    /\ ret = [op |-> "Init", inst |-> "", errs |-> <<>>, steps |-> <<>>, val |-> ""]

\* list.AddInstance appends: the new instance takes the first free slot
NextSlot(i) == life[i] = "none" /\ \A j \in Slots : j < i => life[j] = "fleet"

\* the instance that is being named is the last of the list
LastSlot(i) == life[i] = "fleet" /\ \A j \in Slots : j > i => life[j] = "none"

\* controller.handleNewInstance, the new instance appended to the list
AppendInstance(i) == NextSlot(i) /\ DoNewInstance(i)

\* Esc while the last instance of the list is being named
EscapeNaming(i) == LastSlot(i) /\ DoEscape(i)

NextFleet ==
    \/ \E i \in Slots : AppendInstance(i)
    \/ \E i \in Slots : EscapeNaming(i)

SpecFleet == InitFleet /\ [][NextFleet]_vars

---------------------------------------------------------------------------
(* The title specification: two instances that the operator gives the same *)
(* title                                                                   *)

NextTitles ==
    \/ \E i \in Inst : DoNewInstance(i)
    \/ \E i \in Inst : DoSetTitle(i, {"feat"})
    \/ \E i \in Inst : DoStart(i)
    \/ \E i \in Inst : DoPause(i)
    \/ \E i \in Inst : DoResume(i)
    \/ \E i \in Inst : DoKill(i)

SpecTitles == Init /\ [][NextTitles]_vars

---------------------------------------------------------------------------
(* InjectContinue command by command: tmux accepts or refuses each send    *)

\* the clock of this specification runs up to here
InjectHorizon == 1
\* the stall count of this specification runs up to here
MaxInjections == 2

\* Instance.SendPrompt(cmd): SendKeys returns nil, so that the text of the
\* command is on the input line of the pane; the answer of tmux to a
\* SendPrompt is "refused" (the keys fail), "typed" (the keys are taken and
\* the Enter fails) or "sent"
SendKeysOk(r, w, answer) ==
    /\ r.started
    /\ r.tmuxSession # NoSession
    /\ w.pane[r.tmuxSession.name]
    /\ answer \in {"typed", "sent"}

\* Instance.SendPrompt(cmd) returns nil: the pane exists and tmux takes the
\* keys and the Enter
SendPromptOk(r, w, answer) ==
    /\ SendKeysOk(r, w, answer)
    /\ answer = "sent"

\* what InjectContinue does to the instance after a send that went through,
\* without the refresh of the activity time
Unstalled_KeepsClock(r, t) == [r EXCEPT !.StallCount = @ + 1]

\* what InjectContinue does to the instance after a send that went through
Unstalled(r, t) == [r EXCEPT !.StallCount = @ + 1, !.LastActivityTime = t]

\* the loop of InjectContinue from candidate k on; accepts[k] is the answer
\* of tmux to the k-th send
RECURSIVE TryCommands(_, _, _, _, _, _)
TryCommands(r, w, cmds, accepts, t, k) ==
    IF k > Len(cmds)
    THEN [r |-> r, errs |-> <<"no_command_sent">>, sent |-> "", tried |-> cmds]
    ELSE IF ~SendPromptOk(r, w, accepts[k])
    THEN TryCommands(r, w, cmds, accepts, t, k + 1)
    ELSE [r |-> Unstalled(r, t), errs |-> <<>>, sent |-> cmds[k],
          tried |-> SubSeq(cmds, 1, k)]

\* Instance.InjectContinue(given) at time t, send by send
InjectContinueSends(r, w, s, given, accepts, t) ==
    IF ~r.started \/ r.Status = Paused
    THEN [r |-> r, errs |-> <<"not_running">>, sent |-> "", tried |-> <<>>]
    ELSE TryCommands(r, w, ContinueCommands(r, w, s, given, t), accepts, t, 1)

\* the answers of tmux to n sends in a row: the sends before the f-th fail,
\* all at the keys or all at the Enter, the f-th goes through (if there is
\* one), and the later ones all go through or are all refused
AcceptCases(n) ==
    { [k \in 1..n |-> IF k < f THEN before ELSE IF k = f THEN "sent" ELSE later] :
        f \in 1..(n + 1), before \in {"refused", "typed"},
        later \in {"refused", "sent"} }

\* InjectContinue(nil) on instance i; the step records the candidates tried
\* and the answer of tmux to each of them
DoInjectContinue(i) ==
    /\ InFleet(i)
    /\ LET name == inst[i].tmuxSession.name
           cmds == ContinueCommands(inst[i], World, screen[name], <<>>, now)
       IN \E accepts \in AcceptCases(Len(cmds)) :
            LET j == InjectContinueSends(inst[i], World, screen[name], <<>>,
                                         accepts, now)
            IN /\ j.r.StallCount <= MaxInjections
               /\ inst' = [inst EXCEPT ![i] = j.r]
               /\ screen' = [screen EXCEPT
                                ![name].injected = IF j.sent # "" THEN @ + 1 ELSE @]
               /\ ret' = [op |-> "InjectContinue", inst |-> i, errs |-> j.errs,
                          steps |-> j.tried,
                          val |-> [sent |-> j.sent,
                                   accepts |-> [k \in 1..Len(j.tried) |-> accepts[k]]]]
    /\ UNCHANGED <<life, pane, wt, branch, checkout, now, run>>

NextInject ==
    \/ DoInjectContinue("i1")
    \/ PaneOutput("feat")
    \/ PaneCrash("feat")
    \/ Advance(1, InjectHorizon)

SpecInject == InitStall /\ [][NextInject]_vars

---------------------------------------------------------------------------
(* The candidates of InjectContinue in continuous mode                     *)

\* the program in the pane reports that it has completed its work
PaneCompletes(name) ==
    /\ pane[name]
    /\ \E body \in {KnownCompletion, CompletionWithOption, OtherCompletion} :
         /\ body # screen[name].body
         /\ screen' = [screen EXCEPT
                          ![name] = [body |-> body, dyn |-> 0, injected |-> 0]]
    /\ ret' = [op |-> "PaneCompletes", inst |-> "", errs |-> <<>>, steps |-> <<>>,
               val |-> ""]
    /\ UNCHANGED <<inst, life, pane, wt, branch, checkout, now, run>>

NextMessage ==
    \/ DoToggleContinuousMode("i1")
    \/ DoSetContinuousModeDuration("i1")
    \/ PaneCompletes("feat")
    \/ DoInjectContinue("i1")
    \/ Advance(900, ContinuousHorizon)

SpecMessage == InitRestart /\ [][NextMessage]_vars

---------------------------------------------------------------------------
(* The readiness probe of a restart, ready at any round or at none         *)

\* the clock of this specification runs up to here
ProbeHorizon == 45

NextProbe ==
    \/ DoManualRestart("i1", 0..MaxRetries, ProbeHorizon)
    \/ DoDetectCrashAndRestart("i1", 0..MaxRetries, ProbeHorizon)
    \/ PaneCrash("feat")
    \/ Advance(10, ProbeHorizon)

SpecProbe == InitRestart /\ [][NextProbe]_vars

---------------------------------------------------------------------------
(* The reader-writer mutex of an instance, call by call.  A goroutine is   *)
(* in no method (pc = "idle"), blocked in i.mu.Lock() or i.mu.RLock()       *)
(* (pc = "Lock", "RLock"), or past it (pc = "body"); held is what it holds. *)
(* site tells the three RLock calls of the formatted accessor apart.        *)

Writers == {"ManualRestart", "ToggleContinuousMode", "SetContinuousModeDuration",
            "DisableContinuousMode"}
Readers == {"IsContinuousMode", "GetContinuousModeTimeRemaining",
            "GetContinuousModeTimeRemainingFormatted"}

\* a goroutine that is in no method of the instance
Outside == [method |-> "", pc |-> "idle", held |-> "none", site |-> ""]

\* the goroutine is blocked in Lock() or RLock()
Requesting(p) == run[p].pc \in {"Lock", "RLock"}

\* sync.RWMutex: Lock() returns when nobody holds the mutex
CanLock == \A q \in Runners : run[q].held = "none"

\* sync.RWMutex: RLock() returns when no writer holds the mutex and none is
\* blocked in Lock()
CanRLock == \A q \in Runners : run[q].held # "write" /\ run[q].pc # "Lock"

LockStep(op, p) ==
    /\ ret' = Step(op, p, "i1")
    /\ UNCHANGED <<inst, life, pane, wt, branch, checkout, now, screen>>

\* a goroutine calls a method: the UI any of them, the watchdog (through
\* InjectContinue) the accessor of the time remaining
CallMethod(p) ==
    /\ run[p].pc = "idle"
    /\ \E method \in Writers \cup Readers :
         /\ p = "watchdog" => method = "GetContinuousModeTimeRemaining"
         /\ run' = [run EXCEPT ![p] =
                      [method |-> method,
                       pc |-> IF method \in Writers THEN "Lock" ELSE "RLock",
                       held |-> "none", site |-> "outer"]]
    /\ LockStep("Call", p)

\* i.mu.Lock() returns
AcquireLock(p) ==
    /\ run[p].pc = "Lock"
    /\ CanLock
    /\ run' = [run EXCEPT ![p].pc = "body", ![p].held = "write"]
    /\ LockStep("Lock", p)

\* i.mu.RLock() returns
AcquireRLock(p) ==
    /\ run[p].pc = "RLock"
    /\ CanRLock
    /\ run' = [run EXCEPT ![p].pc = "body", ![p].held = "read"]
    /\ LockStep("RLock", p)

\* a writer method returns (ManualRestart after restartClaudeWithResume,
\* which calls no method that takes the mutex): the deferred Unlock() lets
\* in the readers that are blocked
ReturnWriter(p) ==
    /\ run[p].pc = "body"
    /\ run[p].method \in Writers
    /\ run' = [q \in Runners |->
                 IF q = p THEN Outside
                 ELSE IF run[q].pc = "RLock"
                 THEN [run[q] EXCEPT !.pc = "body", !.held = "read"]
                 ELSE run[q]]
    /\ LockStep("Unlock", p)

\* IsContinuousMode or GetContinuousModeTimeRemaining returns; so does the
\* formatted accessor when the mode is off or its cache is fresh, and at
\* its end
ReturnReader(p) ==
    /\ run[p].pc = "body"
    /\ run[p].method \in Readers
    /\ run[p].site \in {"outer", "relock"}
    /\ run' = [run EXCEPT ![p] = Outside]
    /\ LockStep("RUnlock", p)

\* the formatted accessor that calls GetContinuousModeTimeRemaining with its
\* read lock held
FormattedCallsInner_Holding(p) ==
    /\ run[p].pc = "body"
    /\ run[p].method = "GetContinuousModeTimeRemainingFormatted"
    /\ run[p].site = "outer"
    /\ run' = [run EXCEPT ![p].pc = "RLock", ![p].site = "inner"]
    /\ LockStep("CallInner", p)

\* the formatted accessor: i.mu.RUnlock(), then the call of
\* GetContinuousModeTimeRemaining, which starts with i.mu.RLock()
FormattedCallsInner(p) ==
    /\ run[p].pc = "body"
    /\ run[p].method = "GetContinuousModeTimeRemainingFormatted"
    /\ run[p].site = "outer"
    /\ run' = [run EXCEPT ![p].pc = "RLock", ![p].held = "none", ![p].site = "inner"]
    /\ LockStep("CallInner", p)

\* the formatted accessor: GetContinuousModeTimeRemaining returns (its
\* deferred RUnlock), then i.mu.RLock() again
FormattedRelocks(p) ==
    /\ run[p].pc = "body"
    /\ run[p].site = "inner"
    /\ run' = [run EXCEPT ![p].pc = "RLock", ![p].held = "none", ![p].site = "relock"]
    /\ LockStep("Relock", p)

InitLock ==
    /\ inst = [i \in Inst |-> IF i = "i1" THEN Started("claude code", "feat")
                                          ELSE Unborn]
    /\ life = [i \in Inst |-> IF i = "i1" THEN "fleet" ELSE "none"]
    /\ pane = [t \in Titles |-> t = "feat"]
    /\ wt = [t \in Titles |-> t = "feat"]
    /\ branch = [t \in Titles |-> t = "feat"]
    /\ checkout = [t \in Titles |-> FALSE]
    /\ now = 0
    /\ run = [p \in Runners |-> Outside]
    /\ screen = [t \in Titles |-> Blank]
    /\ ret = [op |-> "Start", inst |-> "i1", errs |-> <<>>,
              steps |-> <<"NewGitWorktree", "Setup", "Start">>, val |-> ""]

NextLock ==
    \/ \E p \in Runners : CallMethod(p)
    \/ \E p \in Runners : AcquireLock(p)
    \/ \E p \in Runners : AcquireRLock(p)
    \/ \E p \in Runners : ReturnWriter(p)
    \/ \E p \in Runners : ReturnReader(p)
    \/ \E p \in Runners : FormattedCallsInner(p)
    \/ \E p \in Runners : FormattedRelocks(p)

\* every method that has been called runs on; a goroutine blocked in Lock()
\* gets the mutex if it is free again and again (the mutex of the writers
\* hands over in turn)
FairLock ==
    \A p \in Runners :
       /\ SF_vars(AcquireLock(p))
       /\ WF_vars(AcquireRLock(p))
       /\ WF_vars(ReturnWriter(p))
       /\ WF_vars(ReturnReader(p))
       /\ WF_vars(FormattedCallsInner(p))
       /\ WF_vars(FormattedRelocks(p))

SpecLock == InitLock /\ [][NextLock]_vars /\ FairLock

---------------------------------------------------------------------------
(* normalizeContent and hashContent on the text of a capture, character by *)
(* character.  (In the stall specifications above a capture is a body with *)
(* at most one time of day, which normalization removes.)                  *)

\* the escape character 0x1b, written as a printable character
ESC == "^"
Digits == {"0", "1", "2", "3", "4", "5", "6", "7", "8", "9"}
Letters ==
    {"a", "b", "c", "d", "e", "f", "g", "h", "i", "j", "k", "l", "m", "n", "o",
     "p", "q", "r", "s", "t", "u", "v", "w", "x", "y", "z",
     "A", "B", "C", "D", "E", "F", "G", "H", "I", "J", "K", "L", "M", "N", "O",
     "P", "Q", "R", "S", "T", "U", "V", "W", "X", "Y", "Z"}

\* the character of s at position i ("" beyond its end)
At(s, i) == IF i \in 1..Len(s) THEN SubSeq(s, i, i) ELSE ""

\* the number of characters of class, in a row, from position i of s
RECURSIVE Run(_, _, _)
Run(s, i, class) == IF At(s, i) \in class THEN 1 + Run(s, i + 1, class) ELSE 0

\* the length of the match of \x1b\[[0-9;]*[a-zA-Z] at position i (0: none)
ansiRegex(s, i) ==
    IF At(s, i) = ESC /\ At(s, i + 1) = "["
    THEN LET n == Run(s, i + 2, Digits \cup {";"})
         IN IF At(s, i + 2 + n) \in Letters THEN n + 3 ELSE 0
    ELSE 0

\* the length of the match of \d{1,2}:\d{2}:\d{2}|\d{4}-\d{2}-\d{2} at
\* position i (0: none)
timeRegex(s, i) ==
    LET d(k) == At(s, i + k) \in Digits
        c(k, ch) == At(s, i + k) = ch
    IN IF d(0) /\ d(1) /\ c(2, ":") /\ d(3) /\ d(4) /\ c(5, ":") /\ d(6) /\ d(7)
       THEN 8
       ELSE IF d(0) /\ c(1, ":") /\ d(2) /\ d(3) /\ c(4, ":") /\ d(5) /\ d(6)
       THEN 7
       ELSE IF /\ d(0) /\ d(1) /\ d(2) /\ d(3) /\ c(4, "-")
               /\ d(5) /\ d(6) /\ c(7, "-") /\ d(8) /\ d(9)
       THEN 10
       ELSE 0

\* the length of the match of \d+% at position i (0: none)
percentRegex(s, i) ==
    LET n == Run(s, i, Digits)
    IN IF n > 0 /\ At(s, i + n) = "%" THEN n + 1 ELSE 0

MatchAt(re, s, i) ==
    CASE re = "ansi" -> ansiRegex(s, i)
      [] re = "time" -> timeRegex(s, i)
      [] re = "percent" -> percentRegex(s, i)

\* re.ReplaceAllString(s, "") from position i on
RECURSIVE ReplaceAllString(_, _, _)
ReplaceAllString(re, s, i) ==
    IF i > Len(s) THEN ""
    ELSE IF MatchAt(re, s, i) > 0
    THEN ReplaceAllString(re, s, i + MatchAt(re, s, i))
    ELSE At(s, i) \o ReplaceAllString(re, s, i + 1)

\* strings.TrimSpace(s)
RECURSIVE TrimSpace(_)
TrimSpace(s) ==
    IF At(s, 1) \in {" ", "\n", "\t"} THEN TrimSpace(SubSeq(s, 2, Len(s)))
    ELSE IF At(s, Len(s)) \in {" ", "\n", "\t"} THEN TrimSpace(SubSeq(s, 1, Len(s) - 1))
    ELSE s

\* Instance.normalizeContent(content) on a text
normalizeText(s) ==
    TrimSpace(ReplaceAllString("percent",
                 ReplaceAllString("time", ReplaceAllString("ansi", s, 1), 1), 1))

\* Instance.hashContent(content) on a text: the SHA-256 digest, without
\* collisions
hashText(s) == "sha256(" \o s \o ")"

\* the dynamic elements of a capture, by kind
DynamicElements ==
    [ ansi |-> {"^[0m", "^[1;31m", "^[K", "^[?25l", "^[?25h"},
      time |-> {"13:54:48", "9:05:03", "2024-01-15", "2025-11-30"},
      percent |-> {"28%", "5%", "100%", "28.5%", "29.1%"} ]

\* two captures that differ only in the dynamic element of one kind, with the
\* same text around it
CapturePairs ==
    LET Contexts == {<<"", "">>, <<"Compacting ", " done">>, <<"> ", "">>} IN
    { [kind |-> kind, a |-> ctx[1] \o x \o ctx[2], b |-> ctx[1] \o y \o ctx[2]] :
        kind \in {"ansi"}, x \in DynamicElements.ansi, y \in DynamicElements.ansi,
        ctx \in Contexts }
    \cup
    { [kind |-> kind, a |-> ctx[1] \o x \o ctx[2], b |-> ctx[1] \o y \o ctx[2]] :
        kind \in {"time"}, x \in DynamicElements.time, y \in DynamicElements.time,
        ctx \in Contexts }
    \cup
    { [kind |-> kind, a |-> ctx[1] \o x \o ctx[2], b |-> ctx[1] \o y \o ctx[2]] :
        kind \in {"percent"}, x \in DynamicElements.percent,
        y \in DynamicElements.percent, ctx \in Contexts }

\* the watchdog has taken two captures of the pane
InitNormalize ==
    /\ inst = [i \in Inst |-> IF i = "i1" THEN Started("claude code", "feat")
                                          ELSE Unborn]
    /\ life = [i \in Inst |-> IF i = "i1" THEN "fleet" ELSE "none"]
    /\ pane = [t \in Titles |-> t = "feat"]
    /\ wt = [t \in Titles |-> t = "feat"]
    /\ branch = [t \in Titles |-> t = "feat"]
    /\ checkout = [t \in Titles |-> FALSE]
    /\ now = 0
    /\ run = [p \in Runners |-> Idle]
    /\ screen = [t \in Titles |-> Blank]
    /\ \E pair \in CapturePairs :
         ret = [op |-> "Capture", inst |-> "i1", errs |-> <<>>, steps |-> <<>>,
                val |-> pair]

\* normalizeContent and hashContent are applied to both captures
DoNormalize ==
    /\ ret.op = "Capture"
    /\ ret' = [op |-> "hashContent", inst |-> "i1", errs |-> <<>>, steps |-> <<>>,
               val |-> [kind |-> ret.val.kind,
                        a |-> hashText(normalizeText(ret.val.a)),
                        b |-> hashText(normalizeText(ret.val.b))]]
    /\ UNCHANGED <<inst, life, pane, wt, branch, checkout, now, run, screen>>

SpecNormalize == InitNormalize /\ [][DoNormalize]_vars

---------------------------------------------------------------------------
(* Naming a new instance: the key events of handleNewInstanceState        *)

\* the length at which character input is refused
TitleLimit == 32
\* the titles of the naming state are explored up to this length
MaxTitleLen == 35
\* spaces are typed once the title has this length
SpaceFrom == 30
\* the runes of one KeyRunes event: a typed character, or a paste of two
RuneInputs == {"a", "aa"}

\* Instance.SetTitle(title)
SetTitle(r, title) ==
    IF r.started
    THEN [r |-> r, errs |-> <<"started">>]
    ELSE [r |-> [r EXCEPT !.Title = title], errs |-> <<>>]

\* the title may take more characters
TitleHasRoom(r) == Len(r.Title) < TitleLimit

\* case tea.KeyRunes
KeyRunes(i) ==
    /\ InFleet(i)
    /\ \E runes \in RuneInputs :
         IF ~TitleHasRoom(inst[i])
         THEN /\ ret' = [op |-> "KeyRunes", inst |-> i, errs |-> <<"too long">>,
                         steps |-> <<>>, val |-> runes]
              /\ UNCHANGED inst
         ELSE LET o == SetTitle(inst[i], inst[i].Title \o runes) IN
              /\ Len(o.r.Title) <= MaxTitleLen
              /\ inst' = [inst EXCEPT ![i] = o.r]
              /\ ret' = [op |-> "KeyRunes", inst |-> i, errs |-> o.errs,
                         steps |-> <<>>, val |-> runes]
    /\ UNCHANGED <<life, pane, wt, branch, checkout, now, run, screen>>

\* case tea.KeyBackspace
KeyBackspace(i) ==
    /\ InFleet(i)
    /\ IF Len(inst[i].Title) = 0
       THEN /\ ret' = [op |-> "KeyBackspace", inst |-> i, errs |-> <<>>,
                       steps |-> <<>>, val |-> ""]
            /\ UNCHANGED inst
       ELSE LET o == SetTitle(inst[i], SubSeq(inst[i].Title, 1, Len(inst[i].Title) - 1)) IN
            /\ inst' = [inst EXCEPT ![i] = o.r]
            /\ ret' = [op |-> "KeyBackspace", inst |-> i, errs |-> o.errs,
                       steps |-> <<>>, val |-> ""]
    /\ UNCHANGED <<life, pane, wt, branch, checkout, now, run, screen>>

\* case tea.KeySpace
KeySpace(i) ==
    /\ InFleet(i)
    /\ Len(inst[i].Title) >= SpaceFrom
    /\ LET o == SetTitle(inst[i], inst[i].Title \o " ") IN
       /\ Len(o.r.Title) <= MaxTitleLen
       /\ inst' = [inst EXCEPT ![i] = o.r]
       /\ ret' = [op |-> "KeySpace", inst |-> i, errs |-> o.errs,
                  steps |-> <<>>, val |-> " "]
    /\ UNCHANGED <<life, pane, wt, branch, checkout, now, run, screen>>

\* the naming state: 'n' creates the instance, then keys edit its title
NextNaming ==
    \/ DoNewInstance("i1")
    \/ KeyRunes("i1")
    \/ KeyBackspace("i1")
    \/ KeySpace("i1")
    \/ DoEscape("i1")

SpecNaming == Init /\ [][NextNaming]_vars

---------------------------------------------------------------------------
(* Properties                                                              *)

\* the instance the last operation acted on, before and after it
Target == inst[ret'.inst]
TargetAfter == inst'[ret'.inst]

\* the last operation left the world of panes, trees and branches alone
WorldUnchanged ==
    /\ pane' = pane
    /\ wt' = wt
    /\ branch' = branch
    /\ checkout' = checkout

\* the last error of a returned error list
LastErr(errs) == IF errs = <<>> THEN "" ELSE errs[Len(errs)]

\* s is an initial part of t
IsPrefix(s, t) == Len(s) <= Len(t) /\ \A k \in 1..Len(s) : s[k] = t[k]

\* step a occurs in steps
Attempted(steps, a) == \E k \in 1..Len(steps) : steps[k] = a

\* C1: every instance of the fleet that is started and not Paused has a
\* live pane of its title and its working tree on disk.
C1_StartedHasPaneAndTree ==
    \A i \in Inst :
        (InFleet(i) /\ inst[i].started /\ inst[i].Status # Paused)
            => pane[inst[i].Title] /\ wt[inst[i].Title]

\* C2: every Paused instance of the fleet has no live pane and no working
\* tree on disk, while its branch exists and its Worktree handle is bound.
C2_PausedKeepsBranchOnly ==
    \A i \in Inst :
        (InFleet(i) /\ inst[i].started /\ inst[i].Status = Paused)
            => /\ ~pane[inst[i].Title]
               /\ ~wt[inst[i].Title]
               /\ branch[inst[i].Title]
               /\ inst[i].gitWorktree # NoWorktree

\* C3: Pause on an instance that is not started or already Paused, Resume
\* on one that is not started or not Paused, and restart on one that is not
\* started or is Paused return an error and change neither the instance nor
\* its pane, working tree or branch.
C3_RejectedWithoutEffect ==
    [][ LET off == ~Target.started
            rejected ==
              \/ ret'.op = "Pause" /\ (off \/ Target.Status = Paused)
              \/ ret'.op = "Resume" /\ (off \/ Target.Status # Paused)
              \/ ret'.op = "ManualRestart" /\ (off \/ Target.Status = Paused)
        IN rejected =>
             /\ ret'.errs # <<>>
             /\ inst' = inst
             /\ life' = life
             /\ WorldUnchanged ]_vars

\* C3 witness: a restart of a Paused instance has been rejected
C3_Witness ==
    /\ ret.op = "ManualRestart"
    /\ ret.errs = <<"paused">>
    /\ inst[ret.inst].started
    /\ inst[ret.inst].Status = Paused

\* an instance that is in the fleet before and after the step
Stays(i) == life[i] = "fleet" /\ life'[i] = "fleet"

\* C4 as claimed: a status changes only Ready to Running by Start, Running
\* to Paused by Pause, or Paused to Running by Resume (a Restart leaves
\* Running as it is).
C4_OnlyStateMachineTransitions ==
    [][ \A i \in Inst :
          (Stays(i) /\ inst'[i].Status # inst[i].Status) =>
             \/ /\ inst[i].Status = Ready /\ inst'[i].Status = Running
                /\ ret'.op \in {"Start", "Reload"}
             \/ /\ inst[i].Status = Running /\ inst'[i].Status = Paused
                /\ ret'.op = "Pause"
             \/ /\ inst[i].Status = Paused /\ inst'[i].Status = Running
                /\ ret'.op = "Resume" ]_vars

\* C4 as amended: a status changes only to Running by a successful Start,
\* from Running or Ready to Paused by Pause, from Paused to Running by
\* Resume, or between Running and Ready by the periodic pass on a started,
\* non-Paused instance.
C4_StatusTransitions ==
    [][ \A i \in Inst :
          (Stays(i) /\ inst'[i].Status # inst[i].Status) =>
             \/ /\ inst[i].Status = Ready /\ inst'[i].Status = Running
                /\ ret'.op \in {"Start", "Reload"}
             \/ /\ inst[i].Status \in {Running, Ready} /\ inst'[i].Status = Paused
                /\ ret'.op = "Pause"
             \/ /\ inst[i].Status = Paused /\ inst'[i].Status = Running
                /\ ret'.op = "Resume"
             \/ /\ ret'.op = "Tick"
                /\ inst[i].started
                /\ inst[i].Status \in {Running, Ready}
                /\ inst'[i].Status \in {Running, Ready} ]_vars

\* C4 witness: the periodic pass has set a started instance to Ready
C4_Witness ==
    /\ ret.op = "Tick"
    /\ \E i \in Inst : InFleet(i) /\ inst[i].started /\ inst[i].Status = Ready

\* a Start has returned an error
StartHasFailed == ret'.op = "Start" /\ ret'.errs # <<>>

\* nothing named by the target's title exists after the step that did not
\* exist before it
NoPaneCreated == pane'[Target.Title] => pane[Target.Title]
NoTreeCreated ==
    /\ wt'[Target.Title] => wt[Target.Title]
    /\ branch'[Target.Title] => branch[Target.Title]

C6_FailedPauseKeepsState ==
    [][ (ret'.op = "Pause" /\ LastErr(ret'.errs) \in {"commit", "close"}) =>
            /\ inst' = inst
            /\ TargetAfter.Status # Paused
            /\ WorldUnchanged ]_vars

\* C6 witness: a Pause has failed to close a live pane; the instance is
\* Running with its pane and its working tree
C6_Witness ==
    /\ ret.op = "Pause"
    /\ LastErr(ret.errs) = "close"
    /\ inst[ret.inst].Status = Running
    /\ pane[inst[ret.inst].Title]
    /\ wt[inst[ret.inst].Title]

\* the calls of a Pause that commits, closes and removes
PauseOrder == <<"IsDirty", "PushChanges", "Close", "Remove", "Prune">>

\* C7: a Pause of an instance with uncommitted changes commits, then closes
\* the pane, then removes the working tree; the status becomes Paused only
\* when all of them succeeded; a failed commit is followed by neither the
\* close nor the removal.
C7_PauseOrder ==
    [][ (ret'.op = "Pause" /\ Attempted(ret'.steps, "PushChanges")) =>
            /\ IsPrefix(ret'.steps, PauseOrder)
            /\ LastErr(ret'.errs) = "commit" =>
                  /\ ret'.steps = <<"IsDirty", "PushChanges">>
                  /\ WorldUnchanged
            /\ TargetAfter.Status = Paused =>
                  /\ ret'.errs = <<>>
                  /\ Attempted(ret'.steps, "Close")
                  /\ wt[Target.Title] => Attempted(ret'.steps, "Remove")
                  /\ ~pane'[Target.Title]
                  /\ ~wt'[Target.Title]
            /\ ret'.errs # <<>> => TargetAfter.Status = Target.Status ]_vars

\* C7 witness: a Pause has committed, closed the pane and removed the tree
C7_Witness ==
    /\ ret.op = "Pause"
    /\ ret.steps = PauseOrder
    /\ ret.errs = <<>>
    /\ inst[ret.inst].Status = Paused

\* C8: a Resume of a Paused instance whose branch is checked out in the
\* repository returns an error, recreates no working tree, starts no pane
\* and leaves the instance Paused and its branch in place.
C8_ResumeRefusesCheckedOut ==
    [][ ( /\ ret'.op = "Resume"
          /\ Target.started /\ Target.Status = Paused
          /\ checkout[Target.gitWorktree] ) =>
            /\ ret'.errs # <<>>
            /\ ~Attempted(ret'.steps, "Setup")
            /\ ~Attempted(ret'.steps, "Start")
            /\ inst' = inst
            /\ WorldUnchanged
            /\ branch'[Target.gitWorktree] ]_vars

\* C8 witness: a Resume has been refused because the branch is checked out
C8_Witness ==
    /\ ret.op = "Resume"
    /\ ret.errs = <<"branch_checked_out">>
    /\ inst[ret.inst].Status = Paused
    /\ checkout[inst[ret.inst].Title]
    /\ branch[inst[ret.inst].Title]
    /\ ~wt[inst[ret.inst].Title]
    /\ ~pane[inst[ret.inst].Title]

\* a Kill has released everything the target held
Released ==
    /\ life[ret'.inst] = "killed"
    /\ ~pane[Target.Title]
    /\ ~wt[Target.Title]
    /\ ~branch[Target.Title]

\* C9: Kill on a never-started instance returns nil and changes nothing,
\* and Kill on an instance that has been killed, its pane, working tree and
\* branch gone, returns nil (as long as git reports no error).
C9_KillIdempotent ==
    [][ ret'.op = "Kill" =>
            /\ ~Target.started =>
                  /\ ret'.errs = <<>>
                  /\ inst' = inst /\ life' = life /\ WorldUnchanged
            /\ (Released /\ ~Attempted(ret'.errs, "cleanup"))
                  => ret'.errs = <<>> ]_vars

\* C10: a restart called right after a successful restart of the same
\* instance has returned fails with the cooldown error and leaves the pane
\* and the instance alone.
C10_SecondRestartCoolsDown ==
    [][ ( /\ ret.op = "ManualRestart" /\ ret.errs = <<>>
          /\ ret'.op = "ManualRestart" /\ ret'.inst = ret.inst ) =>
            /\ ret'.errs = <<"cooldown">>
            /\ inst' = inst
            /\ WorldUnchanged ]_vars

\* the calls that close, replace or type into a pane
PaneCalls == {"SendKeys", "Close", "Start", "SendPrompt"}

\* C13: a ManualRestart called within the cooldown, and a restart that
\* finds no session history, return an error and neither close nor replace
\* the pane nor send anything to it.
C13_GovernanceFailureKeepsPane ==
    [][ LET cooling == /\ ret'.op = "ManualRestart"
                       /\ Target.started
                       /\ Target.Status # Paused
                       /\ IsClaude(Target.Program)
                       /\ now - Target.LastRestartTime < RestartCooldown
            missing == /\ ret'.op \in {"ManualRestart", "DetectCrashAndRestart"}
                       /\ LastErr(ret'.errs) = "session_missing"
        IN (cooling \/ missing) =>
             /\ ret'.errs # <<>>
             /\ cooling => ret'.errs = <<"cooldown">>
             /\ pane' = pane
             /\ TargetAfter.tmuxSession = Target.tmuxSession
             /\ \A k \in 1..Len(ret'.steps) : ret'.steps[k] \notin PaneCalls ]_vars

\* C13 witness: a ManualRestart has been refused within the cooldown, the
\* pane of the instance still live
C13_Witness ==
    /\ ret.op = "ManualRestart"
    /\ ret.errs = <<"cooldown">>
    /\ now - inst[ret.inst].LastRestartTime < RestartCooldown
    /\ pane[inst[ret.inst].Title]

\* C14: a successful ManualRestart of an instance in continuous mode leaves
\* continuous mode on, its start time and its duration as they were and a
\* live pane, and adds exactly 1 to RestartAttempts.
C14_RestartKeepsContinuousMode ==
    [][ ( /\ ret'.op = "ManualRestart"
          /\ ret'.errs = <<>>
          /\ Target.ContinuousMode ) =>
            /\ TargetAfter.ContinuousMode
            /\ TargetAfter.ContinuousModeStartTime = Target.ContinuousModeStartTime
            /\ TargetAfter.ContinuousModeDuration = Target.ContinuousModeDuration
            /\ pane'[Target.Title]
            /\ TargetAfter.RestartAttempts = Target.RestartAttempts + 1 ]_vars

\* C14 witness: an instance in continuous mode for 30 minutes, switched on
\* before the clock last moved, has been restarted
C14_Witness ==
    /\ ret.op = "ManualRestart"
    /\ ret.errs = <<>>
    /\ inst[ret.inst].ContinuousMode
    /\ inst[ret.inst].ContinuousModeDuration = 1800
    /\ inst[ret.inst].ContinuousModeStartTime >= 0
    /\ inst[ret.inst].ContinuousModeStartTime < now
    /\ pane[inst[ret.inst].Title]

\* C15 as claimed: a ManualRestart of an instance whose program is not
\* claude fails with the unsupported-program error, started or not, and
\* changes nothing.
C15_UnsupportedProgramRejected ==
    [][ ( /\ ret'.op = "ManualRestart"
          /\ ~IsClaude(Target.Program)
          /\ Target.Status # Paused ) =>
            /\ ret'.errs = <<"unsupported_program">>
            /\ inst' = inst
            /\ WorldUnchanged ]_vars

\* the concurrent callers of ManualRestart that have succeeded
Winners == {p \in Callers : run[p].pc = "returned" /\ run[p].errs = <<>>}

\* C11: when every concurrent caller of ManualRestart has returned, none of
\* them met a failure of tmux or a missing session history, and nothing
\* else has attempted a restart of the instance, exactly one of them has
\* succeeded (and the others have the cooldown error).
C11_OneConcurrentRestartWins ==
    ( /\ \A p \in Callers :
            /\ run[p].pc = "returned"
            /\ run[p].errs \in {<<>>, <<"cooldown">>}
      /\ inst["i1"].RestartAttempts = Cardinality(Winners) )
      => Cardinality(Winners) = 1

\* C12: at most one goroutine is in the restart path of the instance.
C12_OneRestartInProgress ==
    Cardinality({p \in Runners : InRestartPath(p)}) <= 1

\* the diff-stat cache, a nil cache read as one without changes
DiffStatsOf(r) == IF r.diffStats = "nil" THEN "zero" ELSE r.diffStats

\* the fields of an instance a snapshot is said to preserve
Observable(r) ==
    [ Title |-> r.Title, Program |-> r.Program, Status |-> r.Status,
      AutoYes |-> r.AutoYes, WatchdogEnabled |-> r.WatchdogEnabled,
      LastActivityTime |-> r.LastActivityTime, StallCount |-> r.StallCount,
      ContinuousMode |-> r.ContinuousMode,
      ContinuousModeStartTime |-> r.ContinuousModeStartTime,
      ContinuousModeDuration |-> r.ContinuousModeDuration,
      RestartAttempts |-> r.RestartAttempts,
      LastRestartTime |-> r.LastRestartTime,
      DiffStats |-> DiffStatsOf(r) ]

\* C16: saving the instances and loading them again (ToInstanceData, then
\* FromInstanceData) gives, for every started instance whose pane still
\* exists, an instance with the same title, program, status, autoYes,
\* watchdog flag and watchdog state (lastActivityTime, stallCount),
\* continuous-mode fields, restart counters and diff-stat cache.
C16_SnapshotRoundTrip ==
    [][ret'.op = "Reload" =>
         \A i \in Inst :
            (/\ InFleet(i) /\ inst[i].started
             /\ pane[inst[i].tmuxSession.name]
             /\ life'[i] = "fleet")
            => Observable(inst'[i]) = Observable(inst[i])]_vars

\* C17: with max_continue_attempts = MaxContinueAttempts, the watchdog makes
\* at most MaxContinueAttempts continue-injections into a pane between two
\* changes of its content.
C17_InjectionBound ==
    \A name \in Titles : screen[name].injected <= MaxContinueAttempts

\* what DetectStall sees in the step the watchdog takes: the content of the
\* pane, the timeouts it is given, the time since LastActivityTime
Shown == Capture(screen[Target.tmuxSession.name])
Given == CHOOSE cfg \in Timeouts : TRUE
Inactive == now - Target.LastActivityTime
TimeoutOf(r) == IF r.ContinuousMode THEN Given.continuous ELSE Given.normal

\* the content is the one of the previous sample, raw or normalized
SameRaw == Target.lastContentHash = hashContent(Shown)
SameNormalized == Target.lastContentHash = hashContent(normalizeContent(Shown))

\* C18 (as stated): detectStall returns true iff the content holds a prompt
\* pattern, or in continuous mode holds a completion pattern and its
\* normalized hash has been unchanged for more than 2 s, or has not changed
\* for longer than the timeout of the mode.
C18_DetectStallAsStated ==
    [][ret'.op = "WatchdogTick" =>
         (ret'.val = "true" <=>
            \/ hasStallPattern(Shown)
            \/ /\ Target.ContinuousMode
               /\ hasCompletionPattern(Shown)
               /\ SameNormalized /\ Inactive > StabilityThreshold
            \/ SameRaw /\ Inactive > TimeoutOf(Target))]_vars

\* C18: detectStall returns true iff the content is the one of the previous
\* sample and: in continuous mode on a content with a prompt or completion
\* pattern (where the samples are compared after normalization), the last
\* activity is more than 2 s ago; otherwise, the content holds a prompt
\* pattern or the last activity is longer ago than the timeout of the mode.
C18_DetectStall ==
    [][ret'.op = "WatchdogTick" =>
         (ret'.val = "true" <=>
            IF Target.ContinuousMode
               /\ (hasStallPattern(Shown) \/ hasCompletionPattern(Shown))
            THEN SameNormalized /\ Inactive > StabilityThreshold
            ELSE SameRaw /\ (hasStallPattern(Shown) \/ Inactive > TimeoutOf(Target)))]_vars

\* the watchdog has found a continuous-mode instance stalled on the
\* completion status of Claude Code, whose time of day had changed
C18_Witness ==
    /\ ret.op = "WatchdogTick" /\ ret.val = "true"
    /\ inst[ret.inst].ContinuousMode
    /\ screen["feat"].body = "auto-accept edits on"
    /\ inst[ret.inst].lastContentHash # hashContent(Capture(screen["feat"]))

\* the step is a pass of the crash detection over a started, non-Paused
\* claude instance whose pane is gone
CrashPass ==
    /\ ret'.op = "DetectCrashAndRestart"
    /\ Target.started /\ Target.Status # Paused /\ IsClaude(Target.Program)
    /\ ~pane[Target.tmuxSession.name]

\* the step has entered the restart path
RestartPerformed == Attempted(ret'.steps, "findSession")

\* fewer than three restart attempts can have failed in the last 5 minutes:
\* fewer than three have been counted since the counter was reset, or the
\* last one is 5 minutes old, or three have been counted and the last one
\* succeeded (it has refreshed LastActivityTime)
FewFailedAttempts ==
    \/ Target.RestartAttempts < MaxRestartAttempts
    \/ now - Target.LastRestartTime >= AutoRestartCooldown
    \/ /\ Target.RestartAttempts = MaxRestartAttempts
       /\ Target.LastActivityTime > Target.LastRestartTime

\* C19 (as stated): whenever the pane of a started, non-Paused claude
\* instance is gone and fewer than three restart attempts failed in the
\* last 5 minutes, the crash detection performs a restart.
C19_RecoveryAsStated ==
    [][(CrashPass /\ FewFailedAttempts) => RestartPerformed]_vars

\* C19: on a started, non-Paused claude instance whose pane is gone, the
\* crash detection withholds the restart exactly when RestartAttempts, the
\* count of the attempts made since it was last reset (automatic or manual,
\* failed or not), has reached three and the last attempt is less than
\* 5 minutes old; once that attempt is 5 minutes old it restarts again and
\* counts from one.
C19_CrashRecovery ==
    [][CrashPass =>
         /\ RestartPerformed <=>
              ~(/\ Target.RestartAttempts >= MaxRestartAttempts
                /\ now - Target.LastRestartTime < AutoRestartCooldown)
         /\ RestartPerformed =>
              /\ TargetAfter.LastRestartTime = now
              /\ TargetAfter.RestartAttempts =
                   IF Target.RestartAttempts >= MaxRestartAttempts
                   THEN 1 ELSE Target.RestartAttempts + 1
         /\ ~RestartPerformed => TargetAfter = Target /\ WorldUnchanged]_vars

\* the crash detection has given up on an instance whose pane is gone
C19_Witness ==
    /\ ret.op = "DetectCrashAndRestart" /\ ret.steps = <<>>
    /\ ~pane["feat"]
    /\ inst["i1"].RestartAttempts >= MaxRestartAttempts
    /\ now - inst["i1"].LastRestartTime < AutoRestartCooldown

\* C20: the manual and the automatic restart cooldowns are independent: a
\* manual restart that follows an automatic crash-restart, the only restart
\* attempt counted so far, is not rejected as cooling down, and a manual
\* restart does not add to RestartAttempts, the count that suspends the
\* automatic crash recovery at three.
C20_IndependentCooldowns ==
    [][ret'.op = "ManualRestart" =>
         /\ (/\ ret.op = "DetectCrashAndRestart"
             /\ Attempted(ret.steps, "findSession")
             /\ Target.RestartAttempts = 1)
            => LastErr(ret'.errs) # "cooldown"
         /\ TargetAfter.RestartAttempts = Target.RestartAttempts]_vars

\* C21: an instance in continuous mode whose duration is set and has run out
\* is out of continuous mode, with its start time cleared, after one pass of
\* the tick.
C21_ContinuousModeExpires ==
    [][ret'.op = "Tick" =>
         \A i \in Inst :
            (/\ InFleet(i) /\ inst[i].started /\ inst[i].Status # Paused
             /\ inst[i].ContinuousMode
             /\ inst[i].ContinuousModeDuration > 0
             /\ now - inst[i].ContinuousModeStartTime > inst[i].ContinuousModeDuration)
            => /\ ~inst'[i].ContinuousMode
               /\ inst'[i].ContinuousModeStartTime = ZeroTime]_vars

\* C22: an instance in continuous mode has its start time set, whatever
\* toggles, durations, restarts and loads it has gone through, a load from a
\* store written before the start time existed included.
C22_ContinuousModeHasStartTime ==
    \A i \in Inst :
       (InFleet(i) /\ inst[i].ContinuousMode)
       => inst[i].ContinuousModeStartTime # ZeroTime

\* C23: right after a positive duration has been set on a started instance
\* that was not in continuous mode, GetContinuousModeTimeRemaining returns
\* more than 0.
C23_DurationPutsContinuousModeOn ==
    [][(/\ ret'.op = "GetContinuousModeTimeRemaining"
        /\ ret.op = "SetContinuousModeDuration"
        /\ ret.inst = ret'.inst
        /\ inst[ret.inst].started
        /\ ~inst[ret.inst].ContinuousMode
        /\ inst[ret.inst].ContinuousModeDuration > 0)
       => ret'.val > 0]_vars

\* C24: the fleet never holds more than GlobalInstanceLimit instances: a
\* create request made while it holds that many is rejected with an error
\* and adds nothing.
C24_FleetCap ==
    [][/\ NumInstances' <= GlobalInstanceLimit
       /\ (ret'.op = "NewInstance" /\ NumInstances >= GlobalInstanceLimit)
          => /\ ret'.errs # <<>>
             /\ inst' = inst
             /\ life' = life]_vars

\* a create request has been rejected by a full fleet
C24_Witness ==
    /\ ret.op = "NewInstance" /\ ret.errs = <<"limit">>
    /\ NumInstances = GlobalInstanceLimit

\* C25: any two instances of the fleet that have been started have different
\* titles: an instance with the title of another one, Running or Paused,
\* cannot be created and started.
C25_TitlesUnique ==
    \A i, j \in Inst :
       (/\ i # j
        /\ InFleet(i) /\ inst[i].started
        /\ InFleet(j) /\ inst[j].started)
       => inst[i].Title # inst[j].Title

\* C26: under any sequence of key events of the naming state (character
\* input, space, backspace) the title has at most 32 characters
C26_TitleLength ==
    \A i \in Inst : InFleet(i) => Len(inst[i].Title) <= TitleLimit

\* the fields of an instance said to be written under its mutex
LockedFields(r) ==
    [ ContinuousMode |-> r.ContinuousMode,
      ContinuousModeStartTime |-> r.ContinuousModeStartTime,
      ContinuousModeDuration |-> r.ContinuousModeDuration,
      RestartAttempts |-> r.RestartAttempts,
      LastRestartTime |-> r.LastRestartTime,
      Status |-> r.Status ]

\* goroutine p holds i.mu for writing during the step it takes: it is inside
\* ManualRestart, or it enters it in this step
HoldsWriteLock(p) ==
    /\ p \in Callers
    /\ \/ InRestartPath(p)
       \/ run[p].pc = "waiting" /\ LockFree

\* C27: every step that changes a continuous-mode field, a
\* restart-governance field (RestartAttempts, LastRestartTime) or the status
\* of the instance is taken by a goroutine that holds the instance's mutex
\* for writing
C27_MutationsUnderWriteLock ==
    [][LockedFields(inst'["i1"]) # LockedFields(inst["i1"])
          => HoldsWriteLock(ret'.val)]_vars

\* i.mu.RLock() in IsContinuousMode and GetContinuousModeTimeRemaining
\* succeeds at once: no goroutine holds the mutex for writing
ReadCompletes == LockFree

\* C28: while a goroutine is in the readiness probe of a restart, the
\* instance's mutex is not held for writing, so a concurrent
\* IsContinuousMode or GetContinuousModeTimeRemaining completes without
\* waiting
C28_ProbeOutsideWriteLock ==
    \A p \in Runners : run[p].pc = "probing" => ReadCompletes

\* the k-th send of the last InjectContinue went through
Accepted(k) ==
    /\ pane[Target.tmuxSession.name]
    /\ ret'.val.accepts[k] = "sent"

\* C29: InjectContinue tries its candidates in order and stops at the first
\* send that goes through: then exactly one candidate has been sent, the
\* stall count has grown by one and the activity time is the present; when
\* every send fails it returns an error and leaves the stall count and the
\* activity time as they were
C29_InjectContinueOutcome ==
    [][ret'.op = "InjectContinue" /\ Target.started /\ Target.Status # Paused =>
         LET name == Target.tmuxSession.name
             cmds == ContinueCommands(Target, World, screen[name], <<>>, now)
             tried == ret'.steps
         IN /\ Len(tried) <= Len(cmds)
            /\ tried = SubSeq(cmds, 1, Len(tried))
            /\ \A k \in 1..(Len(tried) - 1) : ~Accepted(k)
            /\ IF ret'.errs = <<>>
               THEN /\ tried # <<>>
                    /\ Accepted(Len(tried))
                    /\ ret'.val.sent = tried[Len(tried)]
                    /\ screen'[name].injected = screen[name].injected + 1
                    /\ TargetAfter.StallCount = Target.StallCount + 1
                    /\ TargetAfter.LastActivityTime = now
               ELSE /\ tried = cmds
                    /\ \A k \in 1..Len(cmds) : ~Accepted(k)
                    /\ ret'.val.sent = ""
                    /\ screen' = screen
                    /\ TargetAfter = Target]_vars

\* a send has gone through after an earlier candidate had failed, at a time
\* later than the last activity
C29_Witness ==
    /\ ret.op = "InjectContinue"
    /\ ret.errs = <<>>
    /\ Len(ret.steps) > 1
    /\ inst["i1"].StallCount > 0
    /\ inst["i1"].LastActivityTime = now
    /\ now > 0

\* the last tick saw obs at instance i, and tapped Enter there
TickSaw(i, obs) == Attempted(ret'.steps, i \o ":" \o obs)
TickTapped(i) == Attempted(ret'.steps, i \o ":TapEnter")

\* C30: a tick sets a started, non-Paused instance to Running when its pane
\* has changed; otherwise taps Enter when the prompt signal is set and
\* AutoYes is on; otherwise (no prompt signal, or AutoYes off) sets it to
\* Ready. It leaves an instance that is not started or is Paused untouched.
C30_TickRule ==
    [][ret'.op = "Tick" =>
         \A i \in Inst : InFleet(i) =>
            IF ~inst[i].started \/ inst[i].Status = Paused
            THEN inst'[i] = inst[i] /\ ~TickTapped(i)
            ELSE IF TickSaw(i, "updated")
            THEN inst'[i].Status = Running /\ ~TickTapped(i)
            ELSE IF TickSaw(i, "prompt") /\ inst[i].AutoYes
            THEN TickTapped(i)
            ELSE inst'[i].Status = Ready /\ ~TickTapped(i)]_vars

\* C31: a Pause whose dirty check fails goes on to close the pane and to
\* remove the working tree, then returns the error and does not set the
\* status to Paused: when nothing else fails, the instance is left started
\* and not Paused with neither a pane nor a working tree
C31_FailedDirtyCheckStrips ==
    [][ret'.op = "Pause" /\ ret'.errs # <<>> /\ Head(ret'.errs) = "dirty_check" =>
         /\ Attempted(ret'.steps, "Close")
         /\ TargetAfter.started
         /\ TargetAfter.Status = Target.Status
         /\ TargetAfter.Status # Paused
         /\ ret'.errs = <<"dirty_check">> =>
              /\ ~pane'[Target.tmuxSession.name]
              /\ ~wt'[Target.gitWorktree]]_vars

\* a Pause has failed at its dirty check only, and the instance is started,
\* not Paused, without a pane and without a working tree
C31_Witness ==
    /\ ret.op = "Pause"
    /\ ret.errs = <<"dirty_check">>
    /\ inst[ret.inst].started
    /\ inst[ret.inst].Status # Paused
    /\ ~pane[inst[ret.inst].tmuxSession.name]
    /\ ~wt[inst[ret.inst].gitWorktree]

\* C32: in continuous mode, whenever the pane shows a completion pattern
\* that DetectStall looks for, the candidates InjectContinue tries are the
\* '/continuous' message, then "continue", then Enter
C32_CompletionGetsContinuousMessage ==
    [][( /\ ret'.op = "InjectContinue"
         /\ Target.started /\ Target.Status # Paused
         /\ Target.ContinuousMode
         /\ pane[Target.tmuxSession.name]
         /\ hasCompletionPattern(Capture(screen[Target.tmuxSession.name])) )
       => /\ ret'.steps # <<>>
          /\ Head(ret'.steps) \in {TimedMsg, IndefiniteMsg}
          /\ ret'.steps = SubSeq(<<Head(ret'.steps), "continue", "\n">>,
                                 1, Len(ret'.steps))]_vars

\* C36: the '/continuous' message InjectContinue sends says 'indefinite
\* duration' only when continuous mode has no duration
\* (ContinuousModeDuration = 0); when a duration is set, the message
\* reports the time remaining
C36_IndefiniteOnlyWithoutDuration ==
    [][( /\ ret'.op = "InjectContinue"
         /\ ret'.steps # <<>>
         /\ Head(ret'.steps) \in {TimedMsg, IndefiniteMsg} )
       => (Head(ret'.steps) = IndefiniteMsg <=> Target.ContinuousModeDuration = 0)]_vars

\* the continuous-mode fields of an instance
ModeFields(r) ==
    <<r.ContinuousMode, r.ContinuousModeStartTime, r.ContinuousModeDuration>>

\* C33: the end of a restart leaves the continuous-mode fields as it finds
\* them: what the operator has set while the restart was in progress is not
\* replaced by the values the restart saved at its start
C33_RestartKeepsOperatorChange ==
    [][ret'.op = "RestartProbe" =>
         ModeFields(inst'["i1"]) = ModeFields(inst["i1"])]_vars

\* C34: in continuous mode the hash DetectStall compares with the previous
\* sample and stores is the hash of the normalized content; the hash of the
\* raw content is stored only when continuous mode is off
C34_ContinuousModeHashesNormalized ==
    [][( /\ ret'.op = "WatchdogTick"
         /\ TargetAfter.ContinuousMode
         /\ TargetAfter.lastContentHash # Target.lastContentHash
         /\ TargetAfter.lastContentHash # "" )
       => TargetAfter.lastContentHash = hashContent(normalizeContent(Shown))]_vars

\* the last ManualRestart passed its checks and then failed
ManualRestartFailed(r) ==
    /\ r.op = "ManualRestart"
    /\ r.errs \in {<<"session_missing">>, <<"restart_start">>}

\* C35: a ManualRestart that passes its checks and then fails (no session
\* history, or the new pane does not start) has recorded the time and
\* counted the attempt: a retry within the next 10 s is refused with the
\* cooldown error, and once the count is at the limit of automatic recovery
\* the crash detection has given up
C35_FailedRestartCounts ==
    [][ManualRestartFailed(ret') =>
         /\ TargetAfter.LastRestartTime = now
         /\ TargetAfter.RestartAttempts = Target.RestartAttempts + 1
         /\ \A in \in RestartInputs(ProbeCases), wait \in 0..(RestartCooldown - 1) :
              ManualRestartOutcome(TargetAfter, World', in, now' + wait).o.errs
                 = <<"cooldown">>
         /\ TargetAfter.RestartAttempts >= MaxRestartAttempts
               => CrashRestartGivenUp(TargetAfter, now')]_vars

\* a ManualRestart has failed at the start of the new pane, and its attempt
\* has brought the count to the limit of automatic recovery
C35_Witness ==
    /\ ManualRestartFailed(ret)
    /\ inst["i1"].LastRestartTime = now
    /\ inst["i1"].RestartAttempts >= MaxRestartAttempts

\* the text of the k-th candidate of the last InjectContinue has been typed
\* on the input line of the pane
Typed(k) ==
    /\ pane[Target.tmuxSession.name]
    /\ ret'.val.accepts[k] \in {"typed", "sent"}

\* C37: within one InjectContinue the text of at most one candidate reaches
\* the pane
C37_OneCandidateTyped ==
    [][ret'.op = "InjectContinue" =>
         Cardinality({k \in 1..Len(ret'.steps) : Typed(k)}) <= 1]_vars

\* how often step a occurs in steps
Times(steps, a) == Cardinality({k \in 1..Len(steps) : steps[k] = a})

C39_NoLockDeadlock ==
    /\ [](\A p \in Runners : Requesting(p) => run[p].held = "none")
    /\ \A p \in Runners : Requesting(p) ~> ~Requesting(p)

\* the formatted accessor is blocked in the RLock() of the accessor it
\* calls, behind a ManualRestart that is blocked in Lock()
C39_Witness ==
    \E p, q \in Runners :
       /\ run[p].pc = "RLock" /\ run[p].site = "inner"
       /\ run[q].pc = "Lock" /\ run[q].method = "ManualRestart"

\* C40: two captures that differ only by ANSI escape sequences, by times of
\* day or dates, or by percentages have the same hash after normalizeContent
C40_NormalizedHashEqual ==
    ret.op = "hashContent" => ret.val.a = ret.val.b

====
